---- MODULE Spec2Model ----
(***************************************************************************)
(* The two NEAR escrow contracts of the repository as one state machine:   *)
(*   HTLCNear   (near-contracts/htlc-near/src/lib.rs)                      *)
(*   FusionHTLC (near-contracts/fusion-htlc/src/lib.rs)                    *)
(* Every public method is one action.  A method call that panics (assert!, *)
(* require!, expect) is aborted by the NEAR runtime: none of its writes is *)
(* committed and none of its promises is scheduled, so the failing branch  *)
(* of an action changes only the call record `last`.  A call is followed   *)
(* by its Return, which clears the call record; the runtime runs one call  *)
(* at a time, so the next call starts after it.                            *)
(***************************************************************************)
EXTENDS Integers, Sequences, FiniteSets, Bags, TLC

(* ------------------------------ bounds -------------------------------- *)
\* block timestamps range over 0..MaxTime
MaxTime == 2
\* attached deposits / escrow amounts range over 0..MaxAmount
MaxAmount == 2
\* the sum of the deposits accepted in one behaviour
MaxDeposited == 3
\* number of keys in HTLCNear.contracts / cross_chain_contracts
MaxContracts == 1
\* number of keys in HTLCNear.partial_fill_swaps and in partial_fills
MaxSwaps == 1
MaxFills == 3
\* total_amount and fill_amount arguments range over 0..MaxTotal
MaxTotal == 2
\* number of keys in FusionHTLC.swaps and in eth_swap_requests
MaxFusionSwaps == 2
MaxRequests == 2
\* length of the swap_ids argument of cleanup_expired_swaps
MaxBatch == 2
\* u128 arithmetic is done modulo U128Modulus (2^128 in the program); the
\* modulus is above 100 times every amount a deposit of the model can make
U128Modulus == 1048576
\* u32 values are kept modulo U32Modulus (2^32 in the program): above every
\* percentage and every fill count of the model, below U128Modulus
U32Modulus == 1024

Accounts == {"alice", "bob", "carol"}
\* accounts that create records, and accounts named as receiver
Senders == {"alice"}
Receivers == {"bob"}
Times == 0..MaxTime
Amounts == 0..MaxAmount
TotalAmounts == 0..MaxTotal
Preimages == {"s1", "s2"}
EthAddresses == {"", "0xeth"}
EthTxHashes == {"0xtx"}
\* the eth_tx_hash: Option<String> argument of initiate_swap
EthTxHashOptions == { << >> }
\* an identifier no create operation derives
NoSuchId == "missing"

(* --------------------------- library functions ------------------------- *)
\* sha2::Sha256::digest: a 32-byte value, different for different inputs
Sha256(bytes) == "sha256(" \o bytes \o ")"
\* Vec<u8>::len of a hashlock argument
ByteLen(v) == IF \E p \in Preimages : v = Sha256(p) THEN 32 ELSE Len(v)
\* hashlock arguments: a digest, the empty vector, a 2-byte vector
Hashlocks == {Sha256("s1"), "", "xy"}
\* hex::encode
Hex(bytes) == "hex(" \o bytes \o ")"
\* String::len of a hashlock argument of FusionHTLC
HexLen(v) == IF \E p \in Preimages : v = Hex(Sha256(p)) THEN 64 ELSE Len(v)
\* hashlock arguments of FusionHTLC: a hex digest, a 2-character string
HexHashlocks == {Hex(Sha256("s1")), "xy"}
\* characters whose UTF-8 encoding takes two bytes; the others take one
TwoByteChars == {"e-acute"}
\* String::len: the length of the UTF-8 encoding, in bytes
RECURSIVE Utf8Len(_)
Utf8Len(str) ==
    IF str = << >> THEN 0
    ELSE (IF Head(str) \in TwoByteChars THEN 2 ELSE 1) + Utf8Len(Tail(str))
\* eth_recipient arguments, as sequences of characters: a 42-character
\* address with the 0x prefix, 42 characters without it, a short string, and
\* the prefix followed by 20 two-byte characters
EthRecipients ==
    { << "0", "x" >> \o [i \in 1..40 |-> "1"],
      [i \in 1..42 |-> "1"],
      << "0", "x", "1" >>,
      << "0", "x" >> \o [i \in 1..20 |-> "e-acute"] }
\* str::starts_with
StartsWith(str, prefix) ==
    Len(str) >= Len(prefix) /\ SubSeq(str, 1, Len(prefix)) = prefix
\* Option<T>
None == << >>
Some(x) == << x >>
\* UnorderedMap: get / insert / remove by key
EmptyMap == [k \in {} |-> TRUE]
Has(m, k) == k \in DOMAIN m
Insert(m, k, v) == [x \in DOMAIN m \cup {k} |-> IF x = k THEN v ELSE m[x]]
Remove(m, k) == [x \in DOMAIN m \ {k} |-> m[x]]
\* u128 addition and subtraction; overflow either panics (overflow-checks
\* on) or wraps (off), depending on the build profile
U128(x) == x % U128Modulus

VARIABLES
    component,              \* the group of methods this behaviour calls
    now,                    \* env::block_timestamp / block_timestamp_ms
    overflow_checks,        \* build profile: arithmetic overflow panics
    owner,                  \* HTLCNear.owner / FusionHTLC.owner
    contracts,              \* HTLCNear.contracts
    cross_chain_contracts,  \* HTLCNear.cross_chain_contracts
    partial_fill_swaps,     \* HTLCNear.partial_fill_swaps
    partial_fills,          \* HTLCNear.partial_fills
    authorized_resolvers,   \* HTLCNear.authorized_resolvers
    swaps,                  \* FusionHTLC.swaps
    eth_swap_requests,      \* FusionHTLC.eth_swap_requests
    claims_in_progress,     \* FusionHTLC.claims_in_progress
    transfers,              \* bag of the Promise transfers issued so far
    deposited,              \* sum of the deposits attached to accepted calls
    last                    \* the call being returned from, NoCall between calls

near_stores == << contracts, cross_chain_contracts, partial_fill_swaps,
                  partial_fills, authorized_resolvers >>
fusion_stores == << swaps, eth_swap_requests, claims_in_progress >>
stores == << near_stores, fusion_stores, owner >>
vars == << component, now, overflow_checks, stores, transfers, deposited, last >>

(* ----------------------------- call record ----------------------------- *)
\* flag_at_transfer: whether claims_in_progress held the swap id at the point
\* where the method created its transfer; writes_undone: the store writes
\* the method had made when it panicked
NoCall == [op |-> "none", caller |-> "", id |-> "", secret |-> "",
           amount |-> 0, ok |-> TRUE, err |-> "", to |-> "", paid |-> 0,
           ret |-> << >>, flag_at_transfer |-> FALSE, writes_undone |-> 0]
\* a call that returned normally; `to`/`paid` is the transfer it issued
Ok(op, caller, id, secret, amount, to, paid) ==
    [op |-> op, caller |-> caller, id |-> id, secret |-> secret,
     amount |-> amount, ok |-> TRUE, err |-> "", to |-> to, paid |-> paid,
     ret |-> << >>, flag_at_transfer |-> FALSE, writes_undone |-> 0]
\* a call that returned the value ret (a list of identifiers) and paid nothing
Returned(op, caller, id, ret) ==
    [op |-> op, caller |-> caller, id |-> id, secret |-> "",
     amount |-> 0, ok |-> TRUE, err |-> "", to |-> "", paid |-> 0,
     ret |-> ret, flag_at_transfer |-> FALSE, writes_undone |-> 0]
\* the number of store writes a method has made when it panics with message
\* err: refund_partial_fill inserts the refunded fill before it looks up the
\* parent swap and updates its amounts; claim_swap has marked the claim and
\* inserted the swap when it checks the payout; every other panic of either
\* contract comes before the first write of its method
WritesBefore(op, err) ==
    IF op = "refund_partial_fill"
       /\ err \in {"Parent swap not found", "attempt to subtract with overflow",
                   "attempt to add with overflow"}
    THEN 1
    ELSE IF op = "claim_swap" /\ err = "Payout amount must be positive" THEN 2
    ELSE 0
\* a call that panicked with message err; the runtime undoes its writes
Failed(op, caller, id, secret, amount, err) ==
    [op |-> op, caller |-> caller, id |-> id, secret |-> secret,
     amount |-> amount, ok |-> FALSE, err |-> err, to |-> "", paid |-> 0,
     ret |-> << >>, flag_at_transfer |-> FALSE,
     writes_undone |-> WritesBefore(op, err)]
\* the runtime aborts a panicking call: nothing but the call record changes
Abort(call) ==
    /\ last' = call
    /\ UNCHANGED << component, now, overflow_checks, stores, transfers, deposited >>
\* Promise::new(to).transfer(amount), issued for record id
Transfer(id, to, amount) ==
    transfers' = transfers (+) SetToBag({[id |-> id, to |-> to, amount |-> amount]})
\* number of transfers issued for record id so far
RECURSIVE SumCopies(_, _)
SumCopies(bag, S) ==
    IF S = {} THEN 0
    ELSE LET t == CHOOSE x \in S : TRUE
         IN CopiesIn(t, bag) + SumCopies(bag, S \ {t})
TransfersFor(id) == SumCopies(transfers, {t \in BagToSet(transfers) : t.id = id})

(* ======================= HTLCNear: escrow store ======================== *)
\* format!("{}-{}-{}-{}", sender, receiver, amount, block_timestamp_ms)
ContractId(sender, receiver, amount, ts) ==
    sender \o "-" \o receiver \o "-" \o ToString(amount) \o "-" \o ToString(ts)

\* the checks of create_htlc, in order; "" when all pass
create_htlc_err(amount, hashlock, timelock) ==
    IF ~(amount > 0) THEN "Amount must be greater than 0"
    ELSE IF ~(timelock > now) THEN "Timelock must be in the future"
    ELSE IF ByteLen(hashlock) = 0 THEN "Hashlock cannot be empty"
    ELSE IF ByteLen(hashlock) # 32 THEN "Hashlock must be 32 bytes"
    ELSE ""

create_htlc(caller, amount, receiver, hashlock, timelock, eth_address) ==
    LET err == create_htlc_err(amount, hashlock, timelock)
        contract_id == ContractId(caller, receiver, amount, now)
        contract == [sender |-> caller, receiver |-> receiver, amount |-> amount,
                     hashlock |-> hashlock, timelock |-> timelock,
                     withdrawn |-> FALSE, refunded |-> FALSE,
                     eth_address |-> eth_address]
    IN  IF err # "" THEN Abort(Failed("create_htlc", caller, "", "", amount, err))
        ELSE /\ Has(contracts, contract_id) \/ Cardinality(DOMAIN contracts) < MaxContracts
             /\ deposited + amount <= MaxDeposited
             /\ contracts' = Insert(contracts, contract_id, contract)
             /\ deposited' = deposited + amount
             /\ last' = Ok("create_htlc", caller, contract_id, "", amount, "", 0)
             /\ UNCHANGED << component, now, overflow_checks, owner, cross_chain_contracts,
                             partial_fill_swaps, partial_fills, authorized_resolvers,
                             fusion_stores, transfers >>

\* withdraw without its caller check
withdraw_err_any_caller(caller, contract_id, preimage) ==
    IF ~Has(contracts, contract_id) THEN "Contract does not exist"
    ELSE LET contract == contracts[contract_id] IN
         IF contract.withdrawn THEN "Already withdrawn"
         ELSE IF contract.refunded THEN "Already refunded"
         ELSE IF ~(now <= contract.timelock) THEN "Timelock expired"
         ELSE IF ~(Sha256(preimage) = contract.hashlock) THEN "Invalid preimage"
         ELSE ""

\* the checks of withdraw, in order
withdraw_err(caller, contract_id, preimage) ==
    IF ~Has(contracts, contract_id) THEN "Contract does not exist"
    ELSE LET contract == contracts[contract_id] IN
         IF contract.withdrawn THEN "Already withdrawn"
         ELSE IF contract.refunded THEN "Already refunded"
         ELSE IF ~(caller = contract.receiver) THEN "Only receiver can withdraw"
         ELSE IF ~(now <= contract.timelock) THEN "Timelock expired"
         ELSE IF ~(Sha256(preimage) = contract.hashlock) THEN "Invalid preimage"
         ELSE ""

withdraw(caller, contract_id, preimage) ==
    LET err == withdraw_err(caller, contract_id, preimage) IN
    IF err # "" THEN Abort(Failed("withdraw", caller, contract_id, preimage, 0, err))
    ELSE LET contract == contracts[contract_id] IN
         /\ contracts' = Insert(contracts, contract_id, [contract EXCEPT !.withdrawn = TRUE])
         /\ Transfer(contract_id, contract.receiver, contract.amount)
         /\ last' = Ok("withdraw", caller, contract_id, preimage, 0,
                       contract.receiver, contract.amount)
         /\ UNCHANGED << component, now, overflow_checks, owner, cross_chain_contracts,
                         partial_fill_swaps, partial_fills, authorized_resolvers,
                         fusion_stores, deposited >>

\* the checks of refund, in order
refund_err(caller, contract_id) ==
    IF ~Has(contracts, contract_id) THEN "Contract does not exist"
    ELSE LET contract == contracts[contract_id] IN
         IF contract.withdrawn THEN "Already withdrawn"
         ELSE IF contract.refunded THEN "Already refunded"
         ELSE IF ~(caller = contract.sender) THEN "Only sender can refund"
         ELSE IF ~(now > contract.timelock) THEN "Timelock not expired"
         ELSE ""

refund(caller, contract_id) ==
    LET err == refund_err(caller, contract_id) IN
    IF err # "" THEN Abort(Failed("refund", caller, contract_id, "", 0, err))
    ELSE LET contract == contracts[contract_id] IN
         /\ contracts' = Insert(contracts, contract_id, [contract EXCEPT !.refunded = TRUE])
         /\ Transfer(contract_id, contract.sender, contract.amount)
         /\ last' = Ok("refund", caller, contract_id, "", 0,
                       contract.sender, contract.amount)
         /\ UNCHANGED << component, now, overflow_checks, owner, cross_chain_contracts,
                         partial_fill_swaps, partial_fills, authorized_resolvers,
                         fusion_stores, deposited >>

(* ================== HTLCNear: cross-chain escrow store ================= *)
\* format!("cc-{}-{}-{}-{}", sender, receiver, amount, block_timestamp_ms)
CrossChainId(sender, receiver, amount, ts) ==
    "cc-" \o ContractId(sender, receiver, amount, ts)

\* the checks of create_cross_chain_htlc, in order
create_cross_chain_htlc_err(amount, hashlock, timelock, eth_address) ==
    IF ~(amount > 0) THEN "Amount must be greater than 0"
    ELSE IF ~(timelock > now) THEN "Timelock must be in the future"
    ELSE IF ByteLen(hashlock) = 0 THEN "Hashlock cannot be empty"
    ELSE IF ByteLen(hashlock) # 32 THEN "Hashlock must be 32 bytes"
    ELSE IF Len(eth_address) = 0 THEN "ETH address required"
    ELSE ""

create_cross_chain_htlc(caller, amount, receiver, hashlock, timelock, eth_address) ==
    LET err == create_cross_chain_htlc_err(amount, hashlock, timelock, eth_address)
        contract_id == CrossChainId(caller, receiver, amount, now)
        contract == [sender |-> caller, receiver |-> receiver, amount |-> amount,
                     hashlock |-> hashlock, timelock |-> timelock,
                     withdrawn |-> FALSE, refunded |-> FALSE,
                     eth_address |-> eth_address, eth_tx_hash |-> None]
    IN  IF err # "" THEN Abort(Failed("create_cross_chain_htlc", caller, "", "", amount, err))
        ELSE /\ \/ Has(cross_chain_contracts, contract_id)
                \/ Cardinality(DOMAIN cross_chain_contracts) < MaxContracts
             /\ deposited + amount <= MaxDeposited
             /\ cross_chain_contracts' = Insert(cross_chain_contracts, contract_id, contract)
             /\ deposited' = deposited + amount
             /\ last' = Ok("create_cross_chain_htlc", caller, contract_id, "", amount, "", 0)
             /\ UNCHANGED << component, now, overflow_checks, owner, contracts,
                             partial_fill_swaps, partial_fills, authorized_resolvers,
                             fusion_stores, transfers >>

\* the checks of complete_cross_chain_swap, in order
complete_cross_chain_swap_err(caller, contract_id, preimage) ==
    IF ~Has(cross_chain_contracts, contract_id) THEN "Contract does not exist"
    ELSE LET contract == cross_chain_contracts[contract_id] IN
         IF contract.withdrawn THEN "Already withdrawn"
         ELSE IF contract.refunded THEN "Already refunded"
         ELSE IF ~(caller = contract.receiver) THEN "Only receiver can withdraw"
         ELSE IF ~(now <= contract.timelock) THEN "Timelock expired"
         ELSE IF ~(Sha256(preimage) = contract.hashlock) THEN "Invalid preimage"
         ELSE ""

complete_cross_chain_swap(caller, contract_id, preimage, eth_tx_hash) ==
    LET err == complete_cross_chain_swap_err(caller, contract_id, preimage) IN
    IF err # ""
    THEN Abort(Failed("complete_cross_chain_swap", caller, contract_id, preimage, 0, err))
    ELSE LET contract == cross_chain_contracts[contract_id] IN
         /\ cross_chain_contracts' =
                Insert(cross_chain_contracts, contract_id,
                       [contract EXCEPT !.withdrawn = TRUE,
                                        !.eth_tx_hash = Some(eth_tx_hash)])
         /\ Transfer(contract_id, contract.receiver, contract.amount)
         /\ last' = Ok("complete_cross_chain_swap", caller, contract_id, preimage, 0,
                       contract.receiver, contract.amount)
         /\ UNCHANGED << component, now, overflow_checks, owner, contracts,
                         partial_fill_swaps, partial_fills, authorized_resolvers,
                         fusion_stores, deposited >>

\* the checks of refund_cross_chain, in order
refund_cross_chain_err(caller, contract_id) ==
    IF ~Has(cross_chain_contracts, contract_id) THEN "Contract does not exist"
    ELSE LET contract == cross_chain_contracts[contract_id] IN
         IF contract.withdrawn THEN "Already withdrawn"
         ELSE IF contract.refunded THEN "Already refunded"
         ELSE IF ~(caller = contract.sender) THEN "Only sender can refund"
         ELSE IF ~(now > contract.timelock) THEN "Timelock not expired"
         ELSE ""

refund_cross_chain(caller, contract_id) ==
    LET err == refund_cross_chain_err(caller, contract_id) IN
    IF err # "" THEN Abort(Failed("refund_cross_chain", caller, contract_id, "", 0, err))
    ELSE LET contract == cross_chain_contracts[contract_id] IN
         /\ cross_chain_contracts' =
                Insert(cross_chain_contracts, contract_id,
                       [contract EXCEPT !.refunded = TRUE])
         /\ Transfer(contract_id, contract.sender, contract.amount)
         /\ last' = Ok("refund_cross_chain", caller, contract_id, "", 0,
                       contract.sender, contract.amount)
         /\ UNCHANGED << component, now, overflow_checks, owner, contracts,
                         partial_fill_swaps, partial_fills, authorized_resolvers,
                         fusion_stores, deposited >>

(* =================== HTLCNear: partial-fill order book ================= *)
\* format!("pf-swap-{}-{}-{}", sender, total_amount.0, block_timestamp_ms)
PartialFillSwapId(sender, total_amount, ts) ==
    "pf-swap-" \o sender \o "-" \o ToString(total_amount) \o "-" \o ToString(ts)
\* format!("fill-{}-{}-{}", swap_id, fill_amount.0, block_timestamp_ms)
PartialFillId(swap_id, fill_amount, ts) ==
    "fill-" \o swap_id \o "-" \o ToString(fill_amount) \o "-" \o ToString(ts)

\* create_partial_fill_swap without its check of the total amount
create_partial_fill_swap_err_any_total(total_amount, eth_address, timelock) ==
    IF ~(timelock > now) THEN "Timelock must be in the future"
    ELSE IF Len(eth_address) = 0 THEN "ETH address required"
    ELSE ""

\* the checks of create_partial_fill_swap, in order
create_partial_fill_swap_err(total_amount, eth_address, timelock) ==
    IF ~(total_amount > 0) THEN "Total amount must be greater than 0"
    ELSE IF ~(timelock > now) THEN "Timelock must be in the future"
    ELSE IF Len(eth_address) = 0 THEN "ETH address required"
    ELSE ""

create_partial_fill_swap(caller, receiver, total_amount, eth_address, timelock) ==
    LET err == create_partial_fill_swap_err(total_amount, eth_address, timelock)
        swap_id == PartialFillSwapId(caller, total_amount, now)
        swap == [swap_id |-> swap_id, sender |-> caller, receiver |-> receiver,
                 total_amount |-> total_amount, filled_amount |-> 0,
                 remaining_amount |-> total_amount, eth_address |-> eth_address,
                 timelock |-> timelock, completed |-> FALSE, created_at |-> now,
                 fill_count |-> 0]
    IN  IF err # ""
        THEN Abort(Failed("create_partial_fill_swap", caller, "", "", total_amount, err))
        ELSE /\ \/ Has(partial_fill_swaps, swap_id)
                \/ Cardinality(DOMAIN partial_fill_swaps) < MaxSwaps
             /\ partial_fill_swaps' = Insert(partial_fill_swaps, swap_id, swap)
             /\ last' = Ok("create_partial_fill_swap", caller, swap_id, "",
                           total_amount, "", 0)
             /\ UNCHANGED << component, now, overflow_checks, owner, contracts,
                             cross_chain_contracts, partial_fills, authorized_resolvers,
                             fusion_stores, transfers, deposited >>

\* create_partial_fill without its check of the amount against the remainder
create_partial_fill_err_any_amount(caller, attached, swap_id, hashlock, fill_amount) ==
    IF ~Has(partial_fill_swaps, swap_id) THEN "Partial fill swap does not exist"
    ELSE LET swap == partial_fill_swaps[swap_id] IN
         IF ~(caller = swap.sender) THEN "Only swap sender can create fills"
         ELSE IF swap.completed THEN "Swap already completed"
         ELSE IF ~(fill_amount > 0) THEN "Fill amount must be greater than 0"
         ELSE IF ~(attached = fill_amount) THEN "Must attach exact fill amount"
         ELSE IF ByteLen(hashlock) = 0 THEN "Hashlock cannot be empty"
         ELSE IF ByteLen(hashlock) # 32 THEN "Hashlock must be 32 bytes"
         ELSE IF overflow_checks /\ swap.filled_amount + fill_amount >= U128Modulus
              THEN "attempt to add with overflow"
         ELSE ""

\* the checks of create_partial_fill, in order, and the overflow check of
\* `swap.filled_amount.0 + fill_amount.0`
create_partial_fill_err(caller, attached, swap_id, hashlock, fill_amount) ==
    IF ~Has(partial_fill_swaps, swap_id) THEN "Partial fill swap does not exist"
    ELSE LET swap == partial_fill_swaps[swap_id] IN
         IF ~(caller = swap.sender) THEN "Only swap sender can create fills"
         ELSE IF swap.completed THEN "Swap already completed"
         ELSE IF ~(fill_amount > 0) THEN "Fill amount must be greater than 0"
         ELSE IF ~(fill_amount <= swap.remaining_amount)
              THEN "Fill amount exceeds remaining amount"
         ELSE IF ~(attached = fill_amount) THEN "Must attach exact fill amount"
         ELSE IF ByteLen(hashlock) = 0 THEN "Hashlock cannot be empty"
         ELSE IF ByteLen(hashlock) # 32 THEN "Hashlock must be 32 bytes"
         ELSE IF overflow_checks /\ swap.filled_amount + fill_amount >= U128Modulus
              THEN "attempt to add with overflow"
         ELSE ""

create_partial_fill(caller, attached, swap_id, hashlock, fill_amount) ==
    LET err == create_partial_fill_err(caller, attached, swap_id, hashlock, fill_amount) IN
    IF err # ""
    THEN Abort(Failed("create_partial_fill", caller, swap_id, "", fill_amount, err))
    ELSE LET swap == partial_fill_swaps[swap_id]
             fill_id == PartialFillId(swap_id, fill_amount, now)
             partial_fill ==
                 [fill_id |-> fill_id, parent_swap_id |-> swap_id, sender |-> caller,
                  receiver |-> swap.receiver, fill_amount |-> fill_amount,
                  hashlock |-> hashlock, timelock |-> swap.timelock,
                  completed |-> FALSE, refunded |-> FALSE,
                  eth_address |-> swap.eth_address, eth_tx_hash |-> None,
                  created_at |-> now]
             remaining == U128(swap.remaining_amount - fill_amount)
             updated == [swap EXCEPT
                            !.filled_amount = U128(swap.filled_amount + fill_amount),
                            !.remaining_amount = remaining,
                            !.fill_count = swap.fill_count + 1,
                            !.completed = IF remaining = 0 THEN TRUE ELSE swap.completed]
         IN /\ \/ Has(partial_fills, fill_id)
               \/ Cardinality(DOMAIN partial_fills) < MaxFills
            /\ deposited + attached <= MaxDeposited
            /\ partial_fills' = Insert(partial_fills, fill_id, partial_fill)
            /\ partial_fill_swaps' = Insert(partial_fill_swaps, swap_id, updated)
            /\ deposited' = deposited + attached
            /\ last' = Ok("create_partial_fill", caller, fill_id, "", fill_amount, "", 0)
            /\ UNCHANGED << component, now, overflow_checks, owner, contracts,
                            cross_chain_contracts, authorized_resolvers,
                            fusion_stores, transfers >>

\* complete_partial_fill without its preimage check
complete_partial_fill_err_any_preimage(caller, fill_id, preimage) ==
    IF ~Has(partial_fills, fill_id) THEN "Partial fill does not exist"
    ELSE LET partial_fill == partial_fills[fill_id] IN
         IF partial_fill.completed THEN "Fill already completed"
         ELSE IF partial_fill.refunded THEN "Fill already refunded"
         ELSE IF ~(caller = partial_fill.receiver) THEN "Only receiver can complete fill"
         ELSE IF ~(now <= partial_fill.timelock) THEN "Timelock expired"
         ELSE ""

\* the checks of complete_partial_fill, in order
complete_partial_fill_err(caller, fill_id, preimage) ==
    IF ~Has(partial_fills, fill_id) THEN "Partial fill does not exist"
    ELSE LET partial_fill == partial_fills[fill_id] IN
         IF partial_fill.completed THEN "Fill already completed"
         ELSE IF partial_fill.refunded THEN "Fill already refunded"
         ELSE IF ~(caller = partial_fill.receiver) THEN "Only receiver can complete fill"
         ELSE IF ~(now <= partial_fill.timelock) THEN "Timelock expired"
         ELSE IF ~(Sha256(preimage) = partial_fill.hashlock) THEN "Invalid preimage"
         ELSE ""

\* complete_partial_fill closing the parent swap together with the fill
complete_partial_fill_closing_swap(caller, fill_id, preimage, eth_tx_hash) ==
    LET err == complete_partial_fill_err(caller, fill_id, preimage) IN
    IF err # ""
    THEN Abort(Failed("complete_partial_fill", caller, fill_id, preimage, 0, err))
    ELSE LET partial_fill == partial_fills[fill_id]
             swap == partial_fill_swaps[partial_fill.parent_swap_id] IN
         /\ partial_fills' =
                Insert(partial_fills, fill_id,
                       [partial_fill EXCEPT !.completed = TRUE,
                                            !.eth_tx_hash = Some(eth_tx_hash)])
         /\ partial_fill_swaps' =
                Insert(partial_fill_swaps, partial_fill.parent_swap_id,
                       [swap EXCEPT !.completed = TRUE])
         /\ Transfer(fill_id, partial_fill.receiver, partial_fill.fill_amount)
         /\ last' = Ok("complete_partial_fill", caller, fill_id, preimage, 0,
                       partial_fill.receiver, partial_fill.fill_amount)
         /\ UNCHANGED << component, now, overflow_checks, owner, contracts,
                         cross_chain_contracts, authorized_resolvers,
                         fusion_stores, deposited >>

complete_partial_fill(caller, fill_id, preimage, eth_tx_hash) ==
    LET err == complete_partial_fill_err(caller, fill_id, preimage) IN
    IF err # ""
    THEN Abort(Failed("complete_partial_fill", caller, fill_id, preimage, 0, err))
    ELSE LET partial_fill == partial_fills[fill_id] IN
         /\ partial_fills' =
                Insert(partial_fills, fill_id,
                       [partial_fill EXCEPT !.completed = TRUE,
                                            !.eth_tx_hash = Some(eth_tx_hash)])
         /\ Transfer(fill_id, partial_fill.receiver, partial_fill.fill_amount)
         /\ last' = Ok("complete_partial_fill", caller, fill_id, preimage, 0,
                       partial_fill.receiver, partial_fill.fill_amount)
         /\ UNCHANGED << component, now, overflow_checks, owner, contracts,
                         cross_chain_contracts, partial_fill_swaps,
                         authorized_resolvers, fusion_stores, deposited >>

\* the checks of refund_partial_fill, in order, followed by the lookup of
\* the parent swap and the overflow checks of the two updates
refund_partial_fill_err(caller, fill_id) ==
    IF ~Has(partial_fills, fill_id) THEN "Partial fill does not exist"
    ELSE LET partial_fill == partial_fills[fill_id] IN
         IF partial_fill.completed THEN "Fill already completed"
         ELSE IF partial_fill.refunded THEN "Fill already refunded"
         ELSE IF ~(caller = partial_fill.sender) THEN "Only sender can refund fill"
         ELSE IF ~(now > partial_fill.timelock) THEN "Timelock not expired"
         ELSE IF ~Has(partial_fill_swaps, partial_fill.parent_swap_id)
              THEN "Parent swap not found"
         ELSE LET swap == partial_fill_swaps[partial_fill.parent_swap_id] IN
              IF overflow_checks /\ swap.filled_amount < partial_fill.fill_amount
              THEN "attempt to subtract with overflow"
              ELSE IF overflow_checks
                      /\ swap.remaining_amount + partial_fill.fill_amount >= U128Modulus
              THEN "attempt to add with overflow"
              ELSE ""

refund_partial_fill(caller, fill_id) ==
    LET err == refund_partial_fill_err(caller, fill_id) IN
    IF err # "" THEN Abort(Failed("refund_partial_fill", caller, fill_id, "", 0, err))
    ELSE LET partial_fill == partial_fills[fill_id]
             swap == partial_fill_swaps[partial_fill.parent_swap_id]
             updated == [swap EXCEPT
                 !.filled_amount = U128(swap.filled_amount - partial_fill.fill_amount),
                 !.remaining_amount = U128(swap.remaining_amount + partial_fill.fill_amount),
                 !.completed = FALSE]
         IN /\ partial_fills' =
                   Insert(partial_fills, fill_id, [partial_fill EXCEPT !.refunded = TRUE])
            /\ partial_fill_swaps' =
                   Insert(partial_fill_swaps, partial_fill.parent_swap_id, updated)
            /\ Transfer(fill_id, partial_fill.sender, partial_fill.fill_amount)
            /\ last' = Ok("refund_partial_fill", caller, fill_id, "", 0,
                          partial_fill.sender, partial_fill.fill_amount)
            /\ UNCHANGED << component, now, overflow_checks, owner, contracts,
                            cross_chain_contracts, authorized_resolvers,
                            fusion_stores, deposited >>

(* ========================= HTLCNear: owner methods ===================== *)
\* emergency_pause without its owner check
emergency_pause_by_anyone(caller) ==
    /\ last' = Ok("emergency_pause", caller, "", "", 0, "", 0)
    /\ UNCHANGED << component, now, overflow_checks, stores, transfers, deposited >>

\* emergency_pause: the owner check, then a log line
emergency_pause(caller) ==
    IF ~(caller = owner)
    THEN Abort(Failed("emergency_pause", caller, "", "", 0, "Only owner can pause"))
    ELSE /\ last' = Ok("emergency_pause", caller, "", "", 0, "", 0)
         /\ UNCHANGED << component, now, overflow_checks, stores, transfers, deposited >>

\* migrate_to_partial_fills: the owner check, then a log line
migrate_to_partial_fills(caller) ==
    IF ~(caller = owner)
    THEN Abort(Failed("migrate_to_partial_fills", caller, "", "", 0,
                      "Only owner can migrate"))
    ELSE /\ last' = Ok("migrate_to_partial_fills", caller, "", "", 0, "", 0)
         /\ UNCHANGED << component, now, overflow_checks, stores, transfers, deposited >>

\* authorize_resolver without its owner check
authorize_resolver_by_anyone(caller, resolver) ==
    /\ authorized_resolvers' = Insert(authorized_resolvers, resolver, TRUE)
    /\ last' = Ok("authorize_resolver", caller, resolver, "", 0, "", 0)
    /\ UNCHANGED << component, now, overflow_checks, owner, contracts,
                    cross_chain_contracts, partial_fill_swaps, partial_fills,
                    fusion_stores, transfers, deposited >>

\* authorize_resolver: the owner check, then the insertion
authorize_resolver(caller, resolver) ==
    IF ~(caller = owner)
    THEN Abort(Failed("authorize_resolver", caller, resolver, "", 0, "Only owner"))
    ELSE /\ authorized_resolvers' = Insert(authorized_resolvers, resolver, TRUE)
         /\ last' = Ok("authorize_resolver", caller, resolver, "", 0, "", 0)
         /\ UNCHANGED << component, now, overflow_checks, owner, contracts,
                         cross_chain_contracts, partial_fill_swaps, partial_fills,
                         fusion_stores, transfers, deposited >>

\* self.authorized_resolvers.get(&resolver).unwrap_or(false)
is_authorized_resolver(resolver) ==
    IF Has(authorized_resolvers, resolver) THEN authorized_resolvers[resolver] ELSE FALSE

(* ============================ FusionHTLC: swaps ======================== *)
\* hex::encode(Sha256::digest(secret.as_bytes()))
hash_secret(secret) == Hex(Sha256(secret))

\* hex(sha256(format!("{}-{}-{}-{}", sender, receiver, hashlock, timelock)))
generate_swap_id(sender, receiver, hashlock, timelock) ==
    Hex(Sha256(sender \o "-" \o receiver \o "-" \o hashlock \o "-" \o ToString(timelock)))

\* initiate_swap without its check that the swap id is free
initiate_swap_err_no_lookup(caller, amount, receiver, hashlock, timelock) ==
    IF ~(amount > 0) THEN "Amount must be greater than 0"
    ELSE IF ~(timelock > now) THEN "Timelock must be in the future"
    ELSE IF ~(HexLen(hashlock) = 64) THEN "Hashlock must be 32 bytes hex string"
    ELSE ""

\* the checks of initiate_swap, in order
initiate_swap_err(caller, amount, receiver, hashlock, timelock) ==
    IF ~(amount > 0) THEN "Amount must be greater than 0"
    ELSE IF ~(timelock > now) THEN "Timelock must be in the future"
    ELSE IF ~(HexLen(hashlock) = 64) THEN "Hashlock must be 32 bytes hex string"
    ELSE IF Has(swaps, generate_swap_id(caller, receiver, hashlock, timelock))
         THEN "Swap already exists"
    ELSE ""

initiate_swap(caller, amount, receiver, hashlock, timelock, eth_tx_hash) ==
    LET err == initiate_swap_err(caller, amount, receiver, hashlock, timelock)
        swap_id == generate_swap_id(caller, receiver, hashlock, timelock)
        swap == [sender |-> caller, receiver |-> receiver, amount |-> amount,
                 amount_remaining |-> amount, amount_claimed |-> 0, token |-> None,
                 hashlock |-> hashlock, timelock |-> timelock, secret |-> None,
                 is_completed |-> FALSE, is_refunded |-> FALSE,
                 eth_tx_hash |-> eth_tx_hash, claimers |-> << >>]
    IN  IF err # "" THEN Abort(Failed("initiate_swap", caller, "", "", amount, err))
        ELSE /\ Cardinality(DOMAIN swaps) < MaxFusionSwaps
             /\ deposited + amount <= MaxDeposited
             /\ swaps' = Insert(swaps, swap_id, swap)
             /\ deposited' = deposited + amount
             /\ last' = Ok("initiate_swap", caller, swap_id, "", amount, "", 0)
             /\ UNCHANGED << component, now, overflow_checks, owner, near_stores,
                             eth_swap_requests, claims_in_progress, transfers >>

\* self.claims_in_progress.get(swap_id).unwrap_or(false)
is_claiming_in_progress(swap_id) ==
    IF Has(claims_in_progress, swap_id) THEN claims_in_progress[swap_id] ELSE FALSE
\* self.claims_in_progress.insert(swap_id, &true)
mark_claim_in_progress(flags, swap_id) == Insert(flags, swap_id, TRUE)
\* a clear_claim_in_progress that leaves the flag in the table
clear_claim_in_progress_keeping(flags, swap_id) == flags

\* self.claims_in_progress.remove(swap_id)
clear_claim_in_progress(flags, swap_id) == Remove(flags, swap_id)

\* claim_swap accepting a claim at the deadline itself
claim_swap_err_at_deadline(caller, swap_id, secret, amount) ==
    IF ~Has(swaps, swap_id) THEN "Swap not found"
    ELSE LET swap == swaps[swap_id] IN
         IF swap.is_completed THEN "Swap already completed"
         ELSE IF swap.is_refunded THEN "Swap already refunded"
         ELSE IF ~(now <= swap.timelock) THEN "Swap expired"
         ELSE IF ~(hash_secret(secret) = swap.hashlock) THEN "Invalid secret"
         ELSE IF ~(amount > 0) THEN "Claim amount must be greater than 0"
         ELSE IF ~(amount <= swap.amount_remaining)
              THEN "Claim amount exceeds remaining balance"
         ELSE IF is_claiming_in_progress(swap_id) THEN "Claim already in progress"
         ELSE ""

\* claim_swap with a check that the caller is the receiver
claim_swap_err_receiver_only(caller, swap_id, secret, amount) ==
    IF ~Has(swaps, swap_id) THEN "Swap not found"
    ELSE LET swap == swaps[swap_id] IN
         IF swap.is_completed THEN "Swap already completed"
         ELSE IF swap.is_refunded THEN "Swap already refunded"
         ELSE IF ~(now < swap.timelock) THEN "Swap expired"
         ELSE IF ~(hash_secret(secret) = swap.hashlock) THEN "Invalid secret"
         ELSE IF ~(caller = swap.receiver) THEN "Only receiver can claim"
         ELSE IF ~(amount > 0) THEN "Claim amount must be greater than 0"
         ELSE IF ~(amount <= swap.amount_remaining)
              THEN "Claim amount exceeds remaining balance"
         ELSE IF is_claiming_in_progress(swap_id) THEN "Claim already in progress"
         ELSE ""

\* claim_swap without its check of the amount against the remainder
claim_swap_err_any_amount(caller, swap_id, secret, amount) ==
    IF ~Has(swaps, swap_id) THEN "Swap not found"
    ELSE LET swap == swaps[swap_id] IN
         IF swap.is_completed THEN "Swap already completed"
         ELSE IF swap.is_refunded THEN "Swap already refunded"
         ELSE IF ~(now < swap.timelock) THEN "Swap expired"
         ELSE IF ~(hash_secret(secret) = swap.hashlock) THEN "Invalid secret"
         ELSE IF ~(amount > 0) THEN "Claim amount must be greater than 0"
         ELSE IF is_claiming_in_progress(swap_id) THEN "Claim already in progress"
         ELSE ""

\* the checks of claim_swap, in order
claim_swap_err(caller, swap_id, secret, amount) ==
    IF ~Has(swaps, swap_id) THEN "Swap not found"
    ELSE LET swap == swaps[swap_id] IN
         IF swap.is_completed THEN "Swap already completed"
         ELSE IF swap.is_refunded THEN "Swap already refunded"
         ELSE IF ~(now < swap.timelock) THEN "Swap expired"
         ELSE IF ~(hash_secret(secret) = swap.hashlock) THEN "Invalid secret"
         ELSE IF ~(amount > 0) THEN "Claim amount must be greater than 0"
         ELSE IF ~(amount <= swap.amount_remaining)
              THEN "Claim amount exceeds remaining balance"
         ELSE IF is_claiming_in_progress(swap_id) THEN "Claim already in progress"
         ELSE ""

claim_swap(caller, swap_id, secret, amount) ==
    LET err == claim_swap_err(caller, swap_id, secret, amount) IN
    IF err # "" THEN Abort(Failed("claim_swap", caller, swap_id, secret, amount, err))
    ELSE LET swap == swaps[swap_id]
             remaining == U128(swap.amount_remaining - amount)
             updated == [swap EXCEPT
                            !.secret = Some(secret),
                            !.amount_remaining = remaining,
                            !.amount_claimed = U128(swap.amount_claimed + amount),
                            !.claimers = Append(swap.claimers, << caller, amount >>),
                            !.is_completed = IF remaining = 0 THEN TRUE
                                             ELSE swap.is_completed]
         IN /\ swaps' = Insert(swaps, swap_id, updated)
            /\ claims_in_progress' =
                   clear_claim_in_progress(
                       mark_claim_in_progress(claims_in_progress, swap_id), swap_id)
            /\ Transfer(swap_id, caller, amount)
            /\ last' = [Ok("claim_swap", caller, swap_id, secret, amount, caller, amount)
                           EXCEPT !.flag_at_transfer =
                               Has(claims_in_progress', swap_id)
                               /\ claims_in_progress'[swap_id]]
            /\ UNCHANGED << component, now, overflow_checks, owner, near_stores,
                            eth_swap_requests, deposited >>

\* the checks of refund_swap, in order
refund_swap_err(caller, swap_id) ==
    IF ~Has(swaps, swap_id) THEN "Swap not found"
    ELSE LET swap == swaps[swap_id] IN
         IF swap.is_completed THEN "Swap already completed"
         ELSE IF swap.is_refunded THEN "Swap already refunded"
         ELSE IF ~(now >= swap.timelock) THEN "Swap not expired yet"
         ELSE IF ~(caller = swap.sender) THEN "Only sender can refund"
         ELSE IF ~(swap.amount_remaining > 0) THEN "No amount left to refund"
         ELSE ""

\* refund_swap returning the amount first locked instead of what remains
refund_swap_full_amount(caller, swap_id) ==
    LET err == refund_swap_err(caller, swap_id) IN
    IF err # "" THEN Abort(Failed("refund_swap", caller, swap_id, "", 0, err))
    ELSE LET swap == swaps[swap_id]
             refund_amount == swap.amount
         IN /\ swaps' = Insert(swaps, swap_id,
                               [swap EXCEPT !.is_refunded = TRUE, !.is_completed = TRUE])
            /\ Transfer(swap_id, caller, refund_amount)
            /\ last' = Ok("refund_swap", caller, swap_id, "", 0, caller, refund_amount)
            /\ UNCHANGED << component, now, overflow_checks, owner, near_stores,
                            eth_swap_requests, claims_in_progress, deposited >>

refund_swap(caller, swap_id) ==
    LET err == refund_swap_err(caller, swap_id) IN
    IF err # "" THEN Abort(Failed("refund_swap", caller, swap_id, "", 0, err))
    ELSE LET swap == swaps[swap_id]
             refund_amount == swap.amount_remaining
         IN /\ swaps' = Insert(swaps, swap_id,
                               [swap EXCEPT !.is_refunded = TRUE, !.is_completed = TRUE])
            /\ Transfer(swap_id, caller, refund_amount)
            /\ last' = Ok("refund_swap", caller, swap_id, "", 0, caller, refund_amount)
            /\ UNCHANGED << component, now, overflow_checks, owner, near_stores,
                            eth_swap_requests, claims_in_progress, deposited >>

\* a cleanup that fires again on a swap that is already completed
cleanup_fires_again(m, swap_id) ==
    Has(m, swap_id) /\ now >= m[swap_id].timelock

\* cleanup_expired_swap on the map m: whether it returns true, and the map after
cleanup_fires(m, swap_id) ==
    Has(m, swap_id) /\ now >= m[swap_id].timelock /\ ~m[swap_id].is_completed

\* the map after cleanup_expired_swap: is_completed is set when it fires
cleanup_result(m, swap_id) ==
    IF cleanup_fires(m, swap_id)
    THEN Insert(m, swap_id, [m[swap_id] EXCEPT !.is_completed = TRUE])
    ELSE m

cleanup_expired_swap(caller, swap_id) ==
    /\ swaps' = cleanup_result(swaps, swap_id)
    /\ last' = Returned("cleanup_expired_swap", caller, swap_id,
                        IF cleanup_fires(swaps, swap_id) THEN << swap_id >> ELSE << >>)
    /\ UNCHANGED << component, now, overflow_checks, owner, near_stores,
                    eth_swap_requests, claims_in_progress, transfers, deposited >>

\* the loop of cleanup_expired_swaps over swap_ids[1..n]: the map and the
\* list `cleaned` after n iterations
RECURSIVE cleanup_loop(_, _)
cleanup_loop(swap_ids, n) ==
    IF n = 0 THEN [map |-> swaps, cleaned |-> << >>]
    ELSE LET before == cleanup_loop(swap_ids, n - 1)
             swap_id == swap_ids[n]
         IN [map |-> cleanup_result(before.map, swap_id),
             cleaned |-> IF cleanup_fires(before.map, swap_id)
                         THEN Append(before.cleaned, swap_id)
                         ELSE before.cleaned]

cleanup_expired_swaps(caller, swap_ids) ==
    LET done == cleanup_loop(swap_ids, Len(swap_ids)) IN
    /\ swaps' = done.map
    /\ last' = Returned("cleanup_expired_swaps", caller, "", done.cleaned)
    /\ UNCHANGED << component, now, overflow_checks, owner, near_stores,
                    eth_swap_requests, claims_in_progress, transfers, deposited >>

\* verify_secret
verify_secret(secret, hashlock) == hash_secret(secret) = hashlock

(* ==================== FusionHTLC: NEAR -> ETH requests ================= *)
\* format!("near_to_eth_{}", env::block_timestamp())
EthSwapId(ts) == "near_to_eth_" \o ToString(ts)

\* request_eth_swap accepting any recipient
request_eth_swap_err_any_recipient(amount, eth_recipient, hashlock, timelock) ==
    IF ~(amount > 0) THEN "Amount must be greater than 0"
    ELSE IF ~(timelock > now) THEN "Timelock must be in the future"
    ELSE IF ~(HexLen(hashlock) = 64) THEN "Hashlock must be 32 bytes hex string"
    ELSE ""

\* the checks of request_eth_swap, in order
request_eth_swap_err(amount, eth_recipient, hashlock, timelock) ==
    IF ~(amount > 0) THEN "Amount must be greater than 0"
    ELSE IF ~(timelock > now) THEN "Timelock must be in the future"
    ELSE IF ~(HexLen(hashlock) = 64) THEN "Hashlock must be 32 bytes hex string"
    ELSE IF ~(Utf8Len(eth_recipient) = 42 /\ StartsWith(eth_recipient, << "0", "x" >>))
         THEN "Invalid Ethereum address"
    ELSE ""

request_eth_swap(caller, amount, eth_recipient, eth_token, hashlock, timelock, params) ==
    LET err == request_eth_swap_err(amount, eth_recipient, hashlock, timelock)
        swap_id == EthSwapId(now)
        eth_swap_request ==
            [swap_id |-> swap_id, near_sender |-> caller,
             eth_recipient |-> eth_recipient, amount |-> amount, near_token |-> None,
             eth_token |-> eth_token, hashlock |-> hashlock, timelock |-> timelock,
             fusion_order_params |-> params]
    IN  IF err # "" THEN Abort(Failed("request_eth_swap", caller, "", "", amount, err))
        ELSE /\ \/ Has(eth_swap_requests, swap_id)
                \/ Cardinality(DOMAIN eth_swap_requests) < MaxRequests
             /\ deposited + amount <= MaxDeposited
             /\ eth_swap_requests' = Insert(eth_swap_requests, swap_id, eth_swap_request)
             /\ deposited' = deposited + amount
             /\ last' = Ok("request_eth_swap", caller, swap_id, "", amount, "", 0)
             /\ UNCHANGED << component, now, overflow_checks, owner, near_stores,
                             swaps, claims_in_progress, transfers >>

\* the checks of complete_eth_swap, in order
complete_eth_swap_err(swap_id, secret) ==
    IF ~Has(eth_swap_requests, swap_id) THEN "Ethereum swap request not found"
    ELSE LET request == eth_swap_requests[swap_id] IN
         IF ~(Hex(Sha256(secret)) = request.hashlock) THEN "Invalid secret"
         ELSE IF ~(now <= request.timelock) THEN "Swap expired"
         ELSE ""

complete_eth_swap(caller, swap_id, secret, recipient) ==
    LET err == complete_eth_swap_err(swap_id, secret) IN
    IF err # "" THEN Abort(Failed("complete_eth_swap", caller, swap_id, secret, 0, err))
    ELSE LET request == eth_swap_requests[swap_id] IN
         /\ Transfer(swap_id, recipient, request.amount)
         /\ eth_swap_requests' = Remove(eth_swap_requests, swap_id)
         /\ last' = Ok("complete_eth_swap", caller, swap_id, secret, 0,
                       recipient, request.amount)
         /\ UNCHANGED << component, now, overflow_checks, owner, near_stores,
                         swaps, claims_in_progress, deposited >>

\* refund_eth_swap accepting a refund at the deadline itself
refund_eth_swap_err_at_deadline(swap_id) ==
    IF ~Has(eth_swap_requests, swap_id) THEN "Ethereum swap request not found"
    ELSE IF ~(now >= eth_swap_requests[swap_id].timelock) THEN "Swap not yet expired"
    ELSE ""

\* the checks of refund_eth_swap, in order
refund_eth_swap_err(swap_id) ==
    IF ~Has(eth_swap_requests, swap_id) THEN "Ethereum swap request not found"
    ELSE IF ~(now > eth_swap_requests[swap_id].timelock) THEN "Swap not yet expired"
    ELSE ""

\* get_eth_swap_request: self.eth_swap_requests.get(&swap_id)
get_eth_swap_request(swap_id) ==
    IF Has(eth_swap_requests, swap_id) THEN Some(eth_swap_requests[swap_id]) ELSE None

\* refund_eth_swap paying whoever calls it
refund_eth_swap_to_caller(caller, swap_id) ==
    LET err == refund_eth_swap_err(swap_id) IN
    IF err # "" THEN Abort(Failed("refund_eth_swap", caller, swap_id, "", 0, err))
    ELSE LET request == eth_swap_requests[swap_id] IN
         /\ Transfer(swap_id, caller, request.amount)
         /\ eth_swap_requests' = Remove(eth_swap_requests, swap_id)
         /\ last' = Ok("refund_eth_swap", caller, swap_id, "", 0,
                       caller, request.amount)
         /\ UNCHANGED << component, now, overflow_checks, owner, near_stores,
                         swaps, claims_in_progress, deposited >>

refund_eth_swap(caller, swap_id) ==
    LET err == refund_eth_swap_err(swap_id) IN
    IF err # "" THEN Abort(Failed("refund_eth_swap", caller, swap_id, "", 0, err))
    ELSE LET request == eth_swap_requests[swap_id] IN
         /\ Transfer(swap_id, request.near_sender, request.amount)
         /\ eth_swap_requests' = Remove(eth_swap_requests, swap_id)
         /\ last' = Ok("refund_eth_swap", caller, swap_id, "", 0,
                       request.near_sender, request.amount)
         /\ UNCHANGED << component, now, overflow_checks, owner, near_stores,
                         swaps, claims_in_progress, deposited >>

(* ============================ time and system ========================== *)
\* no call is being returned from
Idle == last.op = "none"

\* the call returns to its caller
Return ==
    /\ ~Idle
    /\ last' = NoCall
    /\ UNCHANGED << component, now, overflow_checks, stores, transfers, deposited >>

\* a later block: the block timestamp grows
Tick ==
    /\ Idle
    /\ now < MaxTime
    /\ now' = now + 1
    /\ UNCHANGED << component, overflow_checks, stores, transfers, deposited, last >>

\* a call of a method of the component `c` may start
Calling(c) == component = c /\ Idle

Components == {"Escrow", "CrossChain", "PartialFill", "Owner", "Swap", "EthRequest"}

\* HTLCNear::new(owner) / FusionHTLC::new(owner)
Init ==
    /\ component \in Components
    /\ now = 0
    /\ overflow_checks \in (IF component = "PartialFill" THEN BOOLEAN ELSE {TRUE})
    /\ owner \in (IF component = "Owner" THEN Accounts ELSE {"alice"})
    /\ contracts = EmptyMap
    /\ cross_chain_contracts = EmptyMap
    /\ partial_fill_swaps = EmptyMap
    /\ partial_fills = EmptyMap
    /\ authorized_resolvers = EmptyMap
    /\ swaps = EmptyMap
    /\ eth_swap_requests = EmptyMap
    /\ claims_in_progress = EmptyMap
    /\ transfers = EmptyBag
    /\ deposited = 0
    /\ last = NoCall

(* ---- the calls of each method, with every argument of the input sets --- *)
any_create_htlc ==
    \E c \in Senders, a \in Amounts, r \in Receivers, h \in Hashlocks,
       t \in Times, e \in EthAddresses :
        Calling("Escrow") /\ create_htlc(c, a, r, h, t, e)
any_withdraw ==
    \E c \in Accounts, id \in DOMAIN contracts \cup {NoSuchId}, p \in Preimages :
        Calling("Escrow") /\ withdraw(c, id, p)
any_refund ==
    \E c \in Accounts, id \in DOMAIN contracts \cup {NoSuchId} :
        Calling("Escrow") /\ refund(c, id)

any_create_cross_chain_htlc ==
    \E c \in Senders, a \in Amounts, r \in Receivers, h \in Hashlocks,
       t \in Times, e \in EthAddresses :
        Calling("CrossChain") /\ create_cross_chain_htlc(c, a, r, h, t, e)
any_complete_cross_chain_swap ==
    \E c \in Accounts, id \in DOMAIN cross_chain_contracts \cup {NoSuchId},
       p \in Preimages, x \in EthTxHashes :
        Calling("CrossChain") /\ complete_cross_chain_swap(c, id, p, x)
any_refund_cross_chain ==
    \E c \in Accounts, id \in DOMAIN cross_chain_contracts \cup {NoSuchId} :
        Calling("CrossChain") /\ refund_cross_chain(c, id)

any_create_partial_fill_swap ==
    \E c \in Senders, r \in Receivers, a \in TotalAmounts, e \in EthAddresses,
       t \in Times :
        Calling("PartialFill") /\ create_partial_fill_swap(c, r, a, e, t)
any_create_partial_fill ==
    \E c \in Accounts, d \in Amounts, id \in DOMAIN partial_fill_swaps \cup {NoSuchId},
       h \in Hashlocks, a \in TotalAmounts :
        Calling("PartialFill") /\ create_partial_fill(c, d, id, h, a)
any_complete_partial_fill ==
    \E c \in Accounts, id \in DOMAIN partial_fills \cup {NoSuchId},
       p \in Preimages, x \in EthTxHashes :
        Calling("PartialFill") /\ complete_partial_fill(c, id, p, x)
any_refund_partial_fill ==
    \E c \in Accounts, id \in DOMAIN partial_fills \cup {NoSuchId} :
        Calling("PartialFill") /\ refund_partial_fill(c, id)

any_emergency_pause ==
    \E c \in Accounts : Calling("Owner") /\ emergency_pause(c)
any_migrate_to_partial_fills ==
    \E c \in Accounts : Calling("Owner") /\ migrate_to_partial_fills(c)
any_authorize_resolver ==
    \E c \in Accounts, r \in Accounts : Calling("Owner") /\ authorize_resolver(c, r)

any_initiate_swap ==
    \E c \in Senders, a \in Amounts, r \in Receivers, h \in HexHashlocks,
       t \in Times, x \in EthTxHashOptions :
        Calling("Swap") /\ initiate_swap(c, a, r, h, t, x)
any_claim_swap ==
    \E c \in Accounts, id \in DOMAIN swaps \cup {NoSuchId}, s \in Preimages,
       a \in TotalAmounts :
        Calling("Swap") /\ claim_swap(c, id, s, a)
any_refund_swap ==
    \E c \in Accounts, id \in DOMAIN swaps \cup {NoSuchId} :
        Calling("Swap") /\ refund_swap(c, id)
any_cleanup_expired_swap ==
    \E c \in Accounts, id \in DOMAIN swaps \cup {NoSuchId} :
        Calling("Swap") /\ cleanup_expired_swap(c, id)
any_cleanup_expired_swaps ==
    \E c \in Accounts, n \in 0..MaxBatch :
        \E ids \in [1..n -> DOMAIN swaps \cup {NoSuchId}] :
            Calling("Swap") /\ cleanup_expired_swaps(c, ids)

any_request_eth_swap ==
    \E c \in Senders, a \in Amounts, r \in EthRecipients, h \in HexHashlocks,
       t \in Times :
        Calling("EthRequest") /\ request_eth_swap(c, a, r, "0xusdc", h, t, "{}")
any_complete_eth_swap ==
    \E c \in Accounts, id \in DOMAIN eth_swap_requests \cup {NoSuchId},
       s \in Preimages, r \in Receivers :
        Calling("EthRequest") /\ complete_eth_swap(c, id, s, r)
any_refund_eth_swap ==
    \E c \in Accounts, id \in DOMAIN eth_swap_requests \cup {NoSuchId} :
        Calling("EthRequest") /\ refund_eth_swap(c, id)

\* every method of both contracts
Next ==
    \/ Return
    \/ Tick
    \/ any_create_htlc
    \/ any_withdraw
    \/ any_refund
    \/ any_create_cross_chain_htlc
    \/ any_complete_cross_chain_swap
    \/ any_refund_cross_chain
    \/ any_create_partial_fill_swap
    \/ any_create_partial_fill
    \/ any_complete_partial_fill
    \/ any_refund_partial_fill
    \/ any_emergency_pause
    \/ any_migrate_to_partial_fills
    \/ any_authorize_resolver
    \/ any_initiate_swap
    \/ any_claim_swap
    \/ any_refund_swap
    \/ any_cleanup_expired_swap
    \/ any_cleanup_expired_swaps
    \/ any_request_eth_swap
    \/ any_complete_eth_swap
    \/ any_refund_eth_swap

Spec == Init /\ [][Next]_vars

(* ---- the behaviours that call the methods of one component only -------- *)
InitEscrow == Init /\ component = "Escrow"
NextEscrow == Return \/ Tick \/ any_create_htlc \/ any_withdraw \/ any_refund
SpecEscrow == InitEscrow /\ [][NextEscrow]_vars

InitCrossChain == Init /\ component = "CrossChain"
NextCrossChain ==
    \/ Return
    \/ Tick
    \/ any_create_cross_chain_htlc
    \/ any_complete_cross_chain_swap
    \/ any_refund_cross_chain
SpecCrossChain == InitCrossChain /\ [][NextCrossChain]_vars

InitPartialFill == Init /\ component = "PartialFill"
NextPartialFill ==
    \/ Return
    \/ Tick
    \/ any_create_partial_fill_swap
    \/ any_create_partial_fill
    \/ any_complete_partial_fill
    \/ any_refund_partial_fill
SpecPartialFill == InitPartialFill /\ [][NextPartialFill]_vars

InitSwap == Init /\ component = "Swap"
NextSwap ==
    \/ Return
    \/ Tick
    \/ any_initiate_swap
    \/ any_claim_swap
    \/ any_refund_swap
    \/ any_cleanup_expired_swap
    \/ any_cleanup_expired_swaps
SpecSwap == InitSwap /\ [][NextSwap]_vars

InitEthRequest == Init /\ component = "EthRequest"
NextEthRequest ==
    \/ Return
    \/ Tick
    \/ any_request_eth_swap
    \/ any_complete_eth_swap
    \/ any_refund_eth_swap
SpecEthRequest == InitEthRequest /\ [][NextEthRequest]_vars

(* ================================ queries =============================== *)
\* a query that notes the id it was asked about in the table of resolvers
QueryResult_recording_id(op, id, ret) ==
    /\ last' = Returned(op, "", id, ret)
    /\ authorized_resolvers' = Insert(authorized_resolvers, id, TRUE)
    /\ UNCHANGED << component, now, overflow_checks, owner, contracts,
                    cross_chain_contracts, partial_fill_swaps, partial_fills,
                    fusion_stores, transfers, deposited >>

\* a method taking &self returns ret: it writes no store and creates no
\* promise; a view call has no predecessor account
QueryResult(op, id, ret) ==
    /\ last' = Returned(op, "", id, ret)
    /\ UNCHANGED << component, now, overflow_checks, stores, transfers, deposited >>

\* the orders in which iterating over the keys S of a map can list them
Listings(S) ==
    { f \in [1..Cardinality(S) -> S] : \A x \in S : \E i \in 1..Cardinality(S) : f[i] = x }
\* Iterator::skip(from_index).take(limit)
SkipTake(seq, from_index, limit) ==
    SubSeq(seq, from_index + 1,
           IF from_index + limit < Len(seq) THEN from_index + limit ELSE Len(seq))

\* the tuple get_contract and get_all_contracts build from a contract
ContractTuple(contract) ==
    << contract.sender, contract.receiver, ToString(contract.amount),
       Hex(contract.hashlock), contract.timelock, contract.withdrawn,
       contract.refunded, contract.eth_address >>
get_contract(contract_id) ==
    IF Has(contracts, contract_id) THEN Some(ContractTuple(contracts[contract_id]))
    ELSE None
check_preimage(contract_id, preimage) ==
    IF Has(contracts, contract_id)
    THEN Sha256(preimage) = contracts[contract_id].hashlock
    ELSE FALSE
get_all_contracts(order) ==
    [i \in 1..Len(order) |-> << order[i], ContractTuple(contracts[order[i]]) >>]
get_cross_chain_contract(contract_id) ==
    IF Has(cross_chain_contracts, contract_id)
    THEN LET contract == cross_chain_contracts[contract_id] IN
         Some(ContractTuple(contract) \o << contract.eth_tx_hash >>)
    ELSE None
get_partial_fill_swap(swap_id) ==
    IF Has(partial_fill_swaps, swap_id)
    THEN LET swap == partial_fill_swaps[swap_id] IN
         Some(<< swap.swap_id, swap.sender, swap.receiver, ToString(swap.total_amount),
                 ToString(swap.filled_amount), ToString(swap.remaining_amount),
                 swap.eth_address, swap.timelock, swap.completed, swap.created_at,
                 swap.fill_count >>)
    ELSE None
\* the tuple get_partial_fill and get_swap_partial_fills build from a fill
PartialFillTuple(fill) ==
    << fill.fill_id, fill.parent_swap_id, fill.sender, fill.receiver,
       ToString(fill.fill_amount), Hex(fill.hashlock), fill.timelock,
       fill.completed, fill.refunded, fill.eth_address, fill.eth_tx_hash,
       fill.created_at >>
get_partial_fill(fill_id) ==
    IF Has(partial_fills, fill_id) THEN Some(PartialFillTuple(partial_fills[fill_id]))
    ELSE None
get_swap_partial_fills(order, swap_id) ==
    LET listed == SelectSeq(order, LAMBDA f : partial_fills[f].parent_swap_id = swap_id)
    IN [i \in 1..Len(listed) |-> PartialFillTuple(partial_fills[listed[i]])]
\* ((swap.filled_amount.0 * 100) / swap.total_amount.0) as u32, in u128
fill_percentage(swap) ==
    IF swap.total_amount > 0
    THEN (U128(swap.filled_amount * 100) \div swap.total_amount) % U32Modulus
    ELSE 0
\* the multiplication panics in a build with overflow checks when it overflows
get_swap_progress_err(swap_id) ==
    IF Has(partial_fill_swaps, swap_id)
       /\ partial_fill_swaps[swap_id].total_amount > 0
       /\ overflow_checks
       /\ partial_fill_swaps[swap_id].filled_amount * 100 >= U128Modulus
    THEN "attempt to multiply with overflow"
    ELSE ""
get_swap_progress(swap_id) ==
    IF Has(partial_fill_swaps, swap_id)
    THEN LET swap == partial_fill_swaps[swap_id] IN
         Some(<< ToString(swap.total_amount), ToString(swap.filled_amount),
                 ToString(swap.remaining_amount), swap.fill_count, swap.completed,
                 fill_percentage(swap) >>)
    ELSE None
get_swap(swap_id) == IF Has(swaps, swap_id) THEN Some(swaps[swap_id]) ELSE None
get_swaps_by_account(order, account, from_index, limit) ==
    LET listed == SelectSeq(order, LAMBDA id : swaps[id].sender = account
                                               \/ swaps[id].receiver = account)
        page == SkipTake(listed, from_index, limit)
    IN [i \in 1..Len(page) |-> << page[i], swaps[page[i]] >>]
get_swap_status(swap_id) ==
    IF Has(swaps, swap_id)
    THEN LET swap == swaps[swap_id] IN
         Some([swap_id |-> swap_id, is_completed |-> swap.is_completed,
               is_refunded |-> swap.is_refunded, amount_total |-> swap.amount,
               amount_remaining |-> swap.amount_remaining,
               amount_claimed |-> swap.amount_claimed, timelock |-> swap.timelock,
               current_time |-> now, is_expired |-> now >= swap.timelock,
               claimers_count |-> Len(swap.claimers),
               secret_revealed |-> swap.secret # None])
    ELSE None

any_get_contract ==
    \E id \in DOMAIN contracts \cup {NoSuchId} :
        Calling("Escrow") /\ QueryResult("get_contract", id, get_contract(id))
any_check_preimage ==
    \E id \in DOMAIN contracts \cup {NoSuchId}, p \in Preimages :
        Calling("Escrow")
        /\ QueryResult("check_preimage", id, << p, check_preimage(id, p) >>)
any_get_all_contracts ==
    \E order \in Listings(DOMAIN contracts) :
        Calling("Escrow")
        /\ QueryResult("get_all_contracts", "", get_all_contracts(order))
any_get_cross_chain_contract ==
    \E id \in DOMAIN cross_chain_contracts \cup {NoSuchId} :
        Calling("CrossChain")
        /\ QueryResult("get_cross_chain_contract", id, get_cross_chain_contract(id))
any_get_partial_fill_swap ==
    \E id \in DOMAIN partial_fill_swaps \cup {NoSuchId} :
        Calling("PartialFill")
        /\ QueryResult("get_partial_fill_swap", id, get_partial_fill_swap(id))
any_get_partial_fill ==
    \E id \in DOMAIN partial_fills \cup {NoSuchId} :
        Calling("PartialFill")
        /\ QueryResult("get_partial_fill", id, get_partial_fill(id))
any_get_swap_partial_fills ==
    \E id \in DOMAIN partial_fill_swaps \cup {NoSuchId},
       order \in Listings(DOMAIN partial_fills) :
        Calling("PartialFill")
        /\ QueryResult("get_swap_partial_fills", id, get_swap_partial_fills(order, id))
any_get_swap_progress ==
    \E id \in DOMAIN partial_fill_swaps \cup {NoSuchId} :
        /\ Calling("PartialFill")
        /\ IF get_swap_progress_err(id) # ""
           THEN Abort(Failed("get_swap_progress", "", id, "", 0, get_swap_progress_err(id)))
           ELSE QueryResult("get_swap_progress", id, get_swap_progress(id))
any_is_authorized_resolver ==
    \E r \in Accounts :
        Calling("Owner")
        /\ QueryResult("is_authorized_resolver", r, << is_authorized_resolver(r) >>)
any_get_swap ==
    \E id \in DOMAIN swaps \cup {NoSuchId} :
        Calling("Swap") /\ QueryResult("get_swap", id, get_swap(id))
any_get_swaps_by_account ==
    \E account \in Accounts, from_index \in 0..1, limit \in 1..MaxBatch,
       order \in Listings(DOMAIN swaps) :
        Calling("Swap")
        /\ QueryResult("get_swaps_by_account", account,
                       get_swaps_by_account(order, account, from_index, limit))
any_get_swap_status ==
    \E id \in DOMAIN swaps \cup {NoSuchId} :
        Calling("Swap") /\ QueryResult("get_swap_status", id, get_swap_status(id))
any_verify_secret ==
    \E s \in Preimages, h \in HexHashlocks :
        Calling("Swap")
        /\ QueryResult("verify_secret", "", << s, h, verify_secret(s, h) >>)
any_get_eth_swap_request ==
    \E id \in DOMAIN eth_swap_requests \cup {NoSuchId} :
        Calling("EthRequest")
        /\ QueryResult("get_eth_swap_request", id, get_eth_swap_request(id))

\* the read-only methods of both contracts
Queries ==
    {"get_contract", "check_preimage", "get_all_contracts", "get_cross_chain_contract",
     "get_partial_fill_swap", "get_partial_fill", "get_swap_partial_fills",
     "get_swap_progress", "is_authorized_resolver", "get_swap", "get_swaps_by_account",
     "get_swap_status", "verify_secret", "get_eth_swap_request"}
AnyQuery ==
    \/ any_get_contract
    \/ any_check_preimage
    \/ any_get_all_contracts
    \/ any_get_cross_chain_contract
    \/ any_get_partial_fill_swap
    \/ any_get_partial_fill
    \/ any_get_swap_partial_fills
    \/ any_get_swap_progress
    \/ any_is_authorized_resolver
    \/ any_get_swap
    \/ any_get_swaps_by_account
    \/ any_get_swap_status
    \/ any_verify_secret
    \/ any_get_eth_swap_request

\* every method of both contracts, the read-only ones included
NextQuery == Next \/ AnyQuery
SpecQuery == Init /\ [][NextQuery]_vars

\* the partial-fill methods and the progress query
NextProgress == NextPartialFill \/ any_get_swap_progress
SpecProgress == InitPartialFill /\ [][NextProgress]_vars

(* ---- the owner's log-only methods called on a contract that is in use --- *)
pause_in_use == \E c \in Accounts : Idle /\ emergency_pause(c)
migrate_in_use == \E c \in Accounts : Idle /\ migrate_to_partial_fills(c)
InitInUse == Init /\ component \in {"Escrow", "PartialFill"}
NextInUse ==
    \/ Return
    \/ Tick
    \/ any_create_htlc
    \/ any_withdraw
    \/ any_refund
    \/ any_create_partial_fill_swap
    \/ any_create_partial_fill
    \/ any_complete_partial_fill
    \/ any_refund_partial_fill
    \/ pause_in_use
    \/ migrate_in_use
SpecInUse == InitInUse /\ [][NextInUse]_vars

(* ================================ properties =========================== *)
\* the step that starts a call: the call record is written
CallStep == last.op = "none" /\ last'.op # "none"
\* a step that writes no store and schedules no transfer
Quiet == stores' = stores /\ transfers' = transfers /\ deposited' = deposited

\* C1: every partial-fill swap keeps filled_amount + remaining_amount equal to
\* its total_amount, through creation, fills, completions and refunds.
C1_Conservation ==
    \A swap_id \in DOMAIN partial_fill_swaps :
        LET swap == partial_fill_swaps[swap_id] IN
        swap.filled_amount + swap.remaining_amount = swap.total_amount

\* a refund of a fill was made after its parent swap was created again
C1_RefundAfterOverwrite ==
    /\ last.op = "refund_partial_fill"
    /\ last.ok
    /\ \E swap_id \in DOMAIN partial_fill_swaps :
           LET swap == partial_fill_swaps[swap_id] IN
           swap.filled_amount + swap.remaining_amount # swap.total_amount

\* C2: HTLCNear schedules at most one transfer for one contract id or fill id,
\* also when two escrows are created with the same arguments at one timestamp.
C2_AtMostOncePayout ==
    \A id \in DOMAIN contracts \cup DOMAIN cross_chain_contracts \cup DOMAIN partial_fills :
        TransfersFor(id) <= 1

\* a contract id was paid out by withdraw more than once
C2_PaidTwice ==
    /\ last.op = "withdraw"
    /\ last.ok
    /\ TransfersFor(last.id) = 2

\* C3: FusionHTLC schedules at most one transfer for one Ethereum swap request id.
C3_AtMostOncePayout ==
    \A ts \in Times : TransfersFor(EthSwapId(ts)) <= 1

\* a request id was paid out by complete_eth_swap more than once
C3_PaidTwice ==
    /\ last.op = "complete_eth_swap"
    /\ last.ok
    /\ TransfersFor(last.id) = 2

\* C4: once the deadline of a FusionHTLC swap has passed, the refund_swap of its
\* sender succeeds as long as the swap is not refunded and holds a remainder,
\* also after cleanup_expired_swap has run on it.
C4_SenderCanRefund ==
    ~ /\ last.op = "refund_swap"
      /\ ~last.ok
      /\ Has(swaps, last.id)
      /\ last.caller = swaps[last.id].sender
      /\ now >= swaps[last.id].timelock
      /\ ~swaps[last.id].is_refunded
      /\ swaps[last.id].amount_remaining > 0

\* the sender's refund fails on an expired swap that still holds its deposit
C4_RefundBlocked ==
    /\ last.op = "refund_swap"
    /\ last.err = "Swap already completed"
    /\ last.caller = swaps[last.id].sender
    /\ swaps[last.id].amount_remaining = swaps[last.id].amount
    /\ ~swaps[last.id].is_refunded

\* the timelock of the record a call of HTLCNear names, if the record exists
HasRecord(call) ==
    \/ call.op \in {"withdraw", "refund"} /\ Has(contracts, call.id)
    \/ /\ call.op \in {"complete_cross_chain_swap", "refund_cross_chain"}
       /\ Has(cross_chain_contracts, call.id)
    \/ /\ call.op \in {"complete_partial_fill", "refund_partial_fill"}
       /\ Has(partial_fills, call.id)
RecordOf(call) ==
    IF call.op \in {"withdraw", "refund"} THEN contracts[call.id]
    ELSE IF call.op \in {"complete_cross_chain_swap", "refund_cross_chain"}
         THEN cross_chain_contracts[call.id]
    ELSE partial_fills[call.id]
ClaimFamily == {"withdraw", "complete_cross_chain_swap", "complete_partial_fill"}
RefundFamily == {"refund", "refund_cross_chain", "refund_partial_fill"}

\* C5: in HTLCNear a claim-family call at block time >= timelock fails, a
\* refund-family call at block time < timelock fails, and a refund-family call
\* at block time >= timelock is not rejected for timing.
C5_TimeGating ==
    HasRecord(last) =>
        /\ last.op \in ClaimFamily /\ now >= RecordOf(last).timelock => ~last.ok
        /\ last.op \in RefundFamily /\ now < RecordOf(last).timelock => ~last.ok
        /\ last.op \in RefundFamily /\ now >= RecordOf(last).timelock
               => last.err # "Timelock not expired"

\* a withdraw succeeded at the very block time of the timelock
C5_ClaimAtDeadline ==
    /\ last.op = "withdraw"
    /\ last.ok
    /\ now = contracts[last.id].timelock

\* C6: in FusionHTLC claim_swap never succeeds at block time >= timelock and on
\* an open swap fails there with "Swap expired", whatever the secret;
\* refund_swap never succeeds at block time < timelock and on an open swap
\* fails there with "Swap not expired yet"; on an open swap the refund_swap of
\* the sender at block time >= timelock succeeds.
C6_TimeGating ==
    Has(swaps, last.id) =>
        LET swap == swaps[last.id]
            open == ~swap.is_completed /\ ~swap.is_refunded
        IN  /\ last.op = "claim_swap" /\ now >= swap.timelock =>
                 /\ ~last.ok
                 /\ open => last.err = "Swap expired"
            /\ last.op = "refund_swap" /\ now < swap.timelock =>
                 /\ ~last.ok
                 /\ open => last.err = "Swap not expired yet"
            /\ /\ last.op = "refund_swap"
               /\ now >= swap.timelock
               /\ last.caller = swap.sender
               /\ ~last.ok
               => ~open

\* a claim with the correct secret was refused at the timelock itself
C6_ClaimRefusedAtDeadline ==
    /\ last.op = "claim_swap"
    /\ last.err = "Swap expired"
    /\ hash_secret(last.secret) = swaps[last.id].hashlock
    /\ now = swaps[last.id].timelock

\* C7: for a pending Ethereum swap request, complete_eth_swap with the correct
\* secret succeeds exactly when block time <= timelock and refund_eth_swap
\* succeeds exactly when block time > timelock, so at every block time exactly
\* one of the two is enabled.
C7_Step ==
    LET call == last' IN
    Has(eth_swap_requests, call.id) =>
        LET request == eth_swap_requests[call.id] IN
        /\ call.op = "complete_eth_swap" /\ Hex(Sha256(call.secret)) = request.hashlock
               => (call.ok <=> now <= request.timelock)
        /\ call.op = "refund_eth_swap" => (call.ok <=> now > request.timelock)
C7_TimeGating == [][CallStep => C7_Step]_vars

\* a refund of a pending request was refused at the timelock itself
C7_RefundRefusedAtDeadline ==
    /\ last.op = "refund_eth_swap"
    /\ last.err = "Swap not yet expired"
    /\ now = eth_swap_requests[last.id].timelock

\* C8 as stated: claim_swap succeeds only when the caller is the receiver of the swap.
C8_OnlyReceiverClaims ==
    last.op = "claim_swap" /\ last.ok => last.caller = swaps[last.id].receiver

\* C8: claim_swap does not look at its caller. A claim_swap fails only when the
\* swap is missing, completed or refunded, the deadline has come, the secret
\* is wrong or the amount is zero or above the remainder; a claim_swap that
\* succeeds pays the claimed amount to its caller and records the caller as
\* claimer; one that fails pays nothing and leaves the swap as it was.
C8_Step ==
    LET call == last' IN
    call.op = "claim_swap" =>
        /\ ~call.ok =>
             /\ Quiet
             /\ call.paid = 0
             /\ \/ ~Has(swaps, call.id)
                \/ swaps[call.id].is_completed
                \/ swaps[call.id].is_refunded
                \/ now >= swaps[call.id].timelock
                \/ hash_secret(call.secret) # swaps[call.id].hashlock
                \/ call.amount = 0
                \/ call.amount > swaps[call.id].amount_remaining
        /\ call.ok =>
             /\ call.to = call.caller
             /\ call.paid = call.amount
             /\ transfers' = transfers (+) SetToBag({[id |-> call.id, to |-> call.caller,
                                                     amount |-> call.amount]})
             /\ swaps'[call.id].claimers =
                    Append(swaps[call.id].claimers, << call.caller, call.amount >>)
C8_AnyCallerClaims == [][CallStep => C8_Step]_vars

\* an account that is not the receiver has claimed and was paid
C8_ClaimedByOther ==
    /\ last.op = "claim_swap"
    /\ last.ok
    /\ last.caller # swaps[last.id].receiver
    /\ last.to = last.caller
    /\ last.paid > 0

\* C9: in HTLCNear withdraw, complete_cross_chain_swap and complete_partial_fill
\* succeed only for the receiver of the record, refund, refund_cross_chain and
\* refund_partial_fill only for its sender; a call by any other account fails
\* and changes no store and schedules no transfer.
C9_Step ==
    LET call == last' IN
    HasRecord(call) =>
        /\ call.op \in ClaimFamily /\ call.caller # RecordOf(call).receiver
               => ~call.ok /\ Quiet
        /\ call.op \in RefundFamily /\ call.caller # RecordOf(call).sender
               => ~call.ok /\ Quiet
C9_OnlyRightParty == [][CallStep => C9_Step]_vars

\* a withdraw with the right preimage in time was refused to a stranger
C9_StrangerRefused ==
    /\ last.op = "withdraw"
    /\ last.err = "Only receiver can withdraw"
    /\ last.caller # contracts[last.id].receiver
    /\ Sha256(last.secret) = contracts[last.id].hashlock
    /\ now <= contracts[last.id].timelock

\* the commitment of the record a claim-family call names, in the state before the call
HasCommitment(call) ==
    \/ call.op \in ClaimFamily /\ HasRecord(call)
    \/ call.op = "claim_swap" /\ Has(swaps, call.id)
    \/ call.op = "complete_eth_swap" /\ Has(eth_swap_requests, call.id)
SecretMatches(call) ==
    IF call.op \in ClaimFamily THEN Sha256(call.secret) = RecordOf(call).hashlock
    ELSE IF call.op = "claim_swap" THEN hash_secret(call.secret) = swaps[call.id].hashlock
    ELSE Hex(Sha256(call.secret)) = eth_swap_requests[call.id].hashlock

\* C10: a claim-family call of either contract succeeds only if the SHA-256 of
\* the secret it supplies equals the commitment stored in the record; with any
\* other secret it fails, schedules no transfer and changes no store, whatever
\* the caller and the time, and its error is "Invalid preimage" (HTLCNear) or
\* "Invalid secret" (FusionHTLC) unless an earlier check of the method fails.
C10_Step ==
    LET call == last' IN
    HasCommitment(call) /\ ~SecretMatches(call) =>
        /\ ~call.ok
        /\ call.paid = 0
        /\ Quiet
        /\ /\ call.op = "withdraw"
           /\ ~contracts[call.id].withdrawn
           /\ ~contracts[call.id].refunded
           /\ call.caller = contracts[call.id].receiver
           /\ now <= contracts[call.id].timelock
           => call.err = "Invalid preimage"
        /\ /\ call.op = "claim_swap"
           /\ ~swaps[call.id].is_completed
           /\ ~swaps[call.id].is_refunded
           /\ now < swaps[call.id].timelock
           => call.err = "Invalid secret"
        /\ call.op = "complete_eth_swap" => call.err = "Invalid secret"
C10_CommitmentSoundness == [][CallStep => C10_Step]_vars

\* a completion of a fill by its receiver in time was refused for its preimage
C10_WrongPreimageRefused ==
    /\ last.op = "complete_partial_fill"
    /\ last.err = "Invalid preimage"
    /\ last.caller = partial_fills[last.id].receiver
    /\ Sha256(last.secret) # partial_fills[last.id].hashlock
    /\ transfers = EmptyBag

\* C11: in HTLCNear, once a withdraw or refund has paid out an escrow id (a
\* complete_partial_fill or refund_partial_fill a fill id), every later
\* withdraw or refund (completion or refund) on that id fails as already
\* finalized, whatever the caller, the preimage and the block time.
C11_Step ==
    LET call == last' IN
    /\ call.op \in {"withdraw", "refund"} /\ TransfersFor(call.id) > 0
           => ~call.ok /\ call.err \in {"Already withdrawn", "Already refunded"}
    /\ call.op \in {"complete_partial_fill", "refund_partial_fill"}
       /\ TransfersFor(call.id) > 0
           => ~call.ok /\ call.err \in {"Fill already completed", "Fill already refunded"}
C11_IdempotentRefusal == [][CallStep => C11_Step]_vars

\* a refund succeeded on an escrow id that a withdraw had paid out before
C11_RefundAfterWithdraw ==
    /\ last.op = "refund"
    /\ last.ok
    /\ \E t \in BagToSet(transfers) : t.id = last.id /\ t.to = contracts[last.id].receiver

\* C12 as stated: at most one claim_swap ever succeeds on one swap id.
C12_AtMostOneClaim ==
    \A swap_id \in DOMAIN swaps : Len(swaps[swap_id].claimers) <= 1

\* C12: claim_swap may succeed several times on one swap id. Each claim that
\* succeeds takes an amount 0 < a <= amount_remaining, moves it from
\* amount_remaining to amount_claimed and marks the swap completed exactly
\* when nothing remains; once nothing remains every claim_swap fails.
C12_Step ==
    LET call == last' IN
    call.op = "claim_swap" /\ Has(swaps, call.id) =>
        LET swap == swaps[call.id] IN
        /\ call.ok =>
             /\ call.amount > 0
             /\ call.amount <= swap.amount_remaining
             /\ swaps'[call.id].amount_remaining = swap.amount_remaining - call.amount
             /\ swaps'[call.id].amount_claimed = swap.amount_claimed + call.amount
             /\ swaps'[call.id].amount_claimed + swaps'[call.id].amount_remaining
                    = swap.amount
             /\ swaps'[call.id].is_completed = (swap.amount_remaining = call.amount)
        /\ swap.amount_remaining = 0 \/ swap.is_completed => ~call.ok
C12_PartialClaims == [][CallStep => C12_Step]_vars

\* a second claim succeeded on a swap
C12_SecondClaim ==
    /\ last.op = "claim_swap"
    /\ last.ok
    /\ Len(swaps[last.id].claimers) = 2

\* sum of the amounts of the transfers issued for record id so far
RECURSIVE SumPaid(_, _)
SumPaid(bag, S) ==
    IF S = {} THEN 0
    ELSE LET t == CHOOSE x \in S : TRUE
         IN t.amount * CopiesIn(t, bag) + SumPaid(bag, S \ {t})
PaidFor(id) == SumPaid(transfers, {t \in BagToSet(transfers) : t.id = id})

\* C13: in FusionHTLC a swap with is_completed = true has been paid out in
\* full: the transfers issued for its id sum to its locked amount.
C13_CompletedPaidInFull ==
    \A swap_id \in DOMAIN swaps :
        swaps[swap_id].is_completed => PaidFor(swap_id) = swaps[swap_id].amount

\* cleanup_expired_swap has completed a swap that was not paid out
C13_CompletedUnpaid ==
    /\ last.op = "cleanup_expired_swap"
    /\ Has(swaps, last.id)
    /\ swaps[last.id].is_completed
    /\ PaidFor(last.id) = 0

FillsOf(swap_id) ==
    {fill_id \in DOMAIN partial_fills : partial_fills[fill_id].parent_swap_id = swap_id}
RECURSIVE SumFills(_)
SumFills(S) ==
    IF S = {} THEN 0
    ELSE LET fill_id == CHOOSE x \in S : TRUE
         IN partial_fills[fill_id].fill_amount + SumFills(S \ {fill_id})

\* C15: the filled_amount of every swap equals the sum of fill_amount over its
\* stored fills that are not refunded, also when fills of one amount are
\* created for it at one block timestamp.
C15_FilledIsSumOfFills ==
    \A swap_id \in DOMAIN partial_fill_swaps :
        partial_fill_swaps[swap_id].filled_amount =
            SumFills({fill_id \in FillsOf(swap_id) : ~partial_fills[fill_id].refunded})

\* two fills of one amount were accepted at one timestamp and one is stored
C15_FillOverwritten ==
    /\ last.op = "create_partial_fill"
    /\ last.ok
    /\ LET swap == partial_fill_swaps[partial_fills[last.id].parent_swap_id] IN
       /\ FillsOf(swap.swap_id) = {last.id}
       /\ swap.filled_amount = 2 * partial_fills[last.id].fill_amount

\* C16: the fill_count of a swap equals the number of stored fills whose
\* parent it is, and it never decreases.
C16_FillCountIsNumberOfFills ==
    \A swap_id \in DOMAIN partial_fill_swaps :
        partial_fill_swaps[swap_id].fill_count = Cardinality(FillsOf(swap_id))

\* a swap counts more fills than are stored for it
C16_CountAboveStored ==
    /\ last.op = "create_partial_fill"
    /\ last.ok
    /\ LET swap == partial_fill_swaps[partial_fills[last.id].parent_swap_id] IN
       swap.fill_count > Cardinality(FillsOf(swap.swap_id))

\* C17: a create operation that derives an id already present in its store
\* fails and leaves the stored record as it was.
C17_Step ==
    LET call == last' IN
    /\ call.op = "create_htlc" /\ call.ok => ~Has(contracts, call.id)
    /\ call.op = "create_cross_chain_htlc" /\ call.ok
           => ~Has(cross_chain_contracts, call.id)
    /\ call.op = "create_partial_fill_swap" /\ call.ok
           => ~Has(partial_fill_swaps, call.id)
    /\ call.op = "create_partial_fill" /\ call.ok => ~Has(partial_fills, call.id)
    /\ call.op = "request_eth_swap" /\ call.ok => ~Has(eth_swap_requests, call.id)
C17_NoSilentOverwrite == [][CallStep => C17_Step]_vars

\* a request was accepted under the id of a pending request of another amount
C17_RequestOverwritten ==
    /\ last.op = "request_eth_swap"
    /\ last.ok
    /\ deposited > eth_swap_requests[last.id].amount
    /\ Cardinality(DOMAIN eth_swap_requests) = 1
    /\ transfers = EmptyBag

\* C18: an initiate_swap whose derived swap id is already stored fails, with
\* "Swap already exists" when its amount, timelock and hashlock are accepted,
\* and every stored swap stays as it was, whatever its state.
C18_Step ==
    LET call == last' IN
    call.op = "initiate_swap" =>
        /\ call.ok => ~Has(swaps, call.id)
        /\ \A swap_id \in DOMAIN swaps :
               Has(swaps', swap_id) /\ swaps'[swap_id] = swaps[swap_id]
        /\ call.err = "Swap already exists" => Quiet
        /\ \A c \in Accounts, r \in Receivers, a \in Amounts, swap_id \in DOMAIN swaps :
               LET swap == swaps[swap_id] IN
               generate_swap_id(c, r, swap.hashlock, swap.timelock) = swap_id =>
                   /\ initiate_swap_err(c, a, r, swap.hashlock, swap.timelock) # ""
                   /\ a > 0 /\ swap.timelock > now =>
                          initiate_swap_err(c, a, r, swap.hashlock, swap.timelock)
                              = "Swap already exists"
C18_DuplicateRejected == [][CallStep => C18_Step]_vars

\* a duplicate of a swap that is already completed was rejected
C18_DuplicateOfCompleted ==
    /\ last.op = "initiate_swap"
    /\ last.err = "Swap already exists"
    /\ Cardinality(DOMAIN swaps) = 1
    /\ \A swap_id \in DOMAIN swaps :
           swaps[swap_id].is_completed /\ Len(swaps[swap_id].claimers) > 0

\* C19: a call of either contract that fails changes no store and issues no
\* transfer (the runtime discards the writes of a call that panics, and
\* cleanup_expired_swap writes nothing when it returns false). A
\* create_partial_fill with fill_amount above the remaining_amount of the swap
\* fails, and the swap keeps its filled_amount, remaining_amount and fill_count.
C19_Step ==
    LET call == last' IN
    /\ ~call.ok => Quiet
    /\ call.op = "cleanup_expired_swap" /\ call.ret = << >> => Quiet
    /\ call.op = "create_partial_fill" /\ call.ok =>
           LET swap_id == partial_fills'[call.id].parent_swap_id IN
           call.amount <= partial_fill_swaps[swap_id].remaining_amount
    /\ call.op = "create_partial_fill" /\ ~call.ok =>
           /\ partial_fill_swaps' = partial_fill_swaps
           /\ partial_fills' = partial_fills
    /\ /\ call.op = "claim_swap"
       /\ Has(swaps, call.id)
       /\ call.amount = 0 \/ call.amount > swaps[call.id].amount_remaining
       => ~call.ok /\ swaps' = swaps
C19_FailureChangesNothing == [][CallStep => C19_Step]_vars

\* a fill above the remainder of a partly filled swap was rejected
C19_ExcessiveFillRejected ==
    /\ last.op = "create_partial_fill"
    /\ last.err = "Fill amount exceeds remaining amount"
    /\ partial_fill_swaps[last.id].fill_count > 0
    /\ partial_fill_swaps[last.id].remaining_amount > 0

\* C20: a refund_partial_fill that succeeds marks the fill refunded, takes
\* fill_amount from the filled_amount of the parent swap, adds it to its
\* remaining_amount and sets completed = false; afterwards a create_partial_fill
\* of the sender with any amount 0 < c <= remaining_amount and that deposit
\* is accepted.
C20_Step ==
    \A fill_id \in DOMAIN partial_fills :
        last'.op = "refund_partial_fill" /\ last'.ok /\ last'.id = fill_id =>
            LET fill == partial_fills[fill_id]
                swap == partial_fill_swaps[fill.parent_swap_id]
            IN  /\ partial_fills'[fill_id].refunded
                /\ swap.filled_amount' = swap.filled_amount - fill.fill_amount
                /\ swap.remaining_amount' = swap.remaining_amount + fill.fill_amount
                /\ ~swap.completed'
                /\ \A c \in 1..(swap.remaining_amount') :
                       create_partial_fill_err(swap.sender, c, swap.swap_id,
                                               Sha256("s1"), c)' = ""
C20_ReopenedOnRefund == [][CallStep => C20_Step]_vars

\* a refund left the parent swap with more filled than its total
C20_FilledAboveTotal ==
    /\ last.op = "refund_partial_fill"
    /\ last.ok
    /\ LET swap == partial_fill_swaps[partial_fills[last.id].parent_swap_id] IN
       swap.filled_amount > swap.total_amount

\* C21: a successful complete_partial_fill leaves every parent swap as it was
\* (total_amount, filled_amount, remaining_amount, fill_count and completed
\* included), changes nothing of the fill but its completed flag, which
\* becomes true, and its eth_tx_hash, leaves every other fill alone, and
\* issues exactly one transfer, of fill_amount to the receiver of the fill.
C21_Step ==
    \A fill_id \in DOMAIN partial_fills :
        last'.op = "complete_partial_fill" /\ last'.ok /\ last'.id = fill_id =>
            LET fill == partial_fills[fill_id] IN
            /\ partial_fill_swaps' = partial_fill_swaps
            /\ DOMAIN partial_fills' = DOMAIN partial_fills
            /\ \A f \in DOMAIN partial_fills \ {fill_id} :
                   partial_fills'[f] = partial_fills[f]
            /\ partial_fills'[fill_id].completed
            /\ [partial_fills'[fill_id] EXCEPT !.completed = fill.completed,
                                               !.eth_tx_hash = fill.eth_tx_hash] = fill
            /\ transfers' = transfers (+) SetToBag({[id |-> fill_id,
                                                     to |-> fill.receiver,
                                                     amount |-> fill.fill_amount]})
            /\ deposited' = deposited
C21_ParentUntouched == [][CallStep => C21_Step]_vars
\* a fill has just been completed while its swap still has capacity left
C21_CompletedFillOfOpenSwap ==
    /\ last.op = "complete_partial_fill" /\ last.ok
    /\ Has(partial_fills, last.id)
    /\ LET swap == partial_fill_swaps[partial_fills[last.id].parent_swap_id] IN
       /\ ~swap.completed
       /\ swap.remaining_amount > 0
       /\ swap.filled_amount = partial_fills[last.id].fill_amount

\* C22: a create_partial_fill succeeds only on a swap that is not completed,
\* with 0 < fill_amount <= remaining_amount and a deposit of fill_amount, and
\* in that one step filled_amount grows by fill_amount, remaining_amount
\* shrinks by it, fill_count grows by 1, completed is true exactly when the
\* new remaining_amount is 0, and the fill stored under the returned id is
\* new, open, and carries the timelock and the receiver of the swap.
C22_Step ==
    \A swap_id \in DOMAIN partial_fill_swaps :
        /\ last'.op = "create_partial_fill" /\ last'.ok
        /\ Has(partial_fills', last'.id)
        /\ partial_fills'[last'.id].parent_swap_id = swap_id
        => LET swap == partial_fill_swaps[swap_id]
               after == partial_fill_swaps'[swap_id]
               fill == partial_fills'[last'.id]
               fill_amount == last'.amount IN
           /\ ~swap.completed
           /\ 0 < fill_amount /\ fill_amount <= swap.remaining_amount
           /\ deposited' = deposited + fill_amount
           /\ after.filled_amount = swap.filled_amount + fill_amount
           /\ after.remaining_amount = swap.remaining_amount - fill_amount
           /\ after.fill_count = swap.fill_count + 1
           /\ after.completed = (after.remaining_amount = 0)
           /\ after.total_amount = swap.total_amount
           /\ ~Has(partial_fills, last'.id)
           /\ fill.fill_amount = fill_amount
           /\ ~fill.completed /\ ~fill.refunded
           /\ fill.timelock = swap.timelock
           /\ fill.receiver = swap.receiver
C22_CreateFillEffect == [][CallStep => C22_Step]_vars

\* C23: a successful complete_eth_swap issues exactly one transfer, of the
\* amount of the request to the recipient passed by the caller; a successful
\* refund_eth_swap issues exactly one transfer, of the amount of the request
\* to its near_sender, whoever calls; either removes the request, so that in
\* the state it leaves get_eth_swap_request returns None for the id and no
\* complete_eth_swap or refund_eth_swap on it can pass the lookup; and every
\* complete_eth_swap or refund_eth_swap on an id that holds no request fails
\* with "Ethereum swap request not found", transferring and changing nothing;
\* an id holds a request again only once a request_eth_swap stored one.
C23_Step ==
    /\ \A swap_id \in DOMAIN eth_swap_requests :
           /\ last'.op \in {"complete_eth_swap", "refund_eth_swap"}
           /\ last'.ok /\ last'.id = swap_id
           => LET request == eth_swap_requests[swap_id]
                  to == IF last'.op = "refund_eth_swap" THEN request.near_sender
                        ELSE last'.to IN
              /\ to \in Accounts
              /\ transfers' = transfers (+) SetToBag({[id |-> swap_id, to |-> to,
                                                       amount |-> request.amount]})
              /\ deposited' = deposited
              /\ eth_swap_requests' = Remove(eth_swap_requests, swap_id)
              /\ get_eth_swap_request(swap_id)' = None
              /\ \A s \in Preimages :
                     complete_eth_swap_err(swap_id, s)' = "Ethereum swap request not found"
              /\ refund_eth_swap_err(swap_id)' = "Ethereum swap request not found"
    /\ /\ last'.op \in {"complete_eth_swap", "refund_eth_swap"}
       /\ ~Has(eth_swap_requests, last'.id)
       => ~last'.ok /\ last'.err = "Ethereum swap request not found" /\ Quiet
    /\ \A swap_id \in DOMAIN eth_swap_requests' \ DOMAIN eth_swap_requests :
           last'.op = "request_eth_swap" /\ last'.ok /\ last'.id = swap_id
C24_ValidRecipient(r) == Utf8Len(r) = 42 /\ StartsWith(r, << "0", "x" >>)
C24_Step ==
    /\ last'.op = "request_eth_swap" /\ last'.ok
       => /\ Has(eth_swap_requests', last'.id)
          /\ LET request == eth_swap_requests'[last'.id] IN
             /\ request.amount > 0
             /\ request.timelock > now
             /\ HexLen(request.hashlock) = 64
             /\ C24_ValidRecipient(request.eth_recipient)
             /\ request.near_sender = last'.caller
             /\ request.amount = last'.amount
             /\ deposited' = deposited + request.amount
             /\ transfers' = transfers
    /\ last'.op = "request_eth_swap" /\ ~last'.ok => Quiet
    /\ \A a \in Amounts, r \in EthRecipients, h \in HexHashlocks, t \in Times :
           LET others == a > 0 /\ t > now /\ HexLen(h) = 64 IN
           /\ request_eth_swap_err(a, r, h, t) = "" <=> others /\ C24_ValidRecipient(r)
           /\ others /\ ~C24_ValidRecipient(r)
              => request_eth_swap_err(a, r, h, t) = "Invalid Ethereum address"
C24_RequestValidation == [][CallStep => C24_Step]_vars
\* a request whose recipient is 42 bytes but not 42 characters long has just
\* been stored for its caller
C24_StoredShortRecipient ==
    /\ last.op = "request_eth_swap" /\ last.ok
    /\ Has(eth_swap_requests, last.id)
    /\ eth_swap_requests[last.id].near_sender = last.caller
    /\ eth_swap_requests[last.id].amount = last.amount
    /\ Len(eth_swap_requests[last.id].eth_recipient) = 22
\* C24 as stated: every stored request has a recipient of 42 characters
C24_StoredOnly42Characters ==
    [][CallStep /\ last'.op = "request_eth_swap" /\ last'.ok
       => Len(eth_swap_requests'[last'.id].eth_recipient) = 42]_vars

\* the sum of the amounts of a claimers list
RECURSIVE SumClaimers(_)
SumClaimers(claimers) ==
    IF claimers = << >> THEN 0
    ELSE Head(claimers)[2] + SumClaimers(Tail(claimers))

\* C25: for every swap of FusionHTLC, whatever claims it has served,
\* amount_claimed + amount_remaining = amount; the claimers list has one
\* entry per transfer issued by a claim, each of a positive amount, and the
\* amounts of every prefix of the list stay within amount (no claim exceeded
\* what remained when it was made) and sum to amount_claimed over the whole
\* list; a swap with nothing remaining is completed, and a swap that is
\* completed with something remaining was closed by a refund or after its
\* timelock, never by a claim.
C25_ClaimAccounting ==
    \A swap_id \in DOMAIN swaps :
        LET swap == swaps[swap_id] IN
        /\ swap.amount_claimed + swap.amount_remaining = swap.amount
        /\ SumClaimers(swap.claimers) = swap.amount_claimed
        /\ \A k \in 1..Len(swap.claimers) :
               /\ swap.claimers[k][2] > 0
               /\ SumClaimers(SubSeq(swap.claimers, 1, k)) <= swap.amount
        /\ Len(swap.claimers)
               = TransfersFor(swap_id) - (IF swap.is_refunded THEN 1 ELSE 0)
        /\ swap.amount_remaining = 0 => swap.is_completed
        /\ swap.is_completed /\ swap.amount_remaining > 0
               => swap.is_refunded \/ now >= swap.timelock
\* a swap has been claimed in two parts by two accounts and is completed
C25_ClaimedInTwoParts ==
    \E swap_id \in DOMAIN swaps :
        LET swap == swaps[swap_id] IN
        /\ Len(swap.claimers) = 2
        /\ swap.claimers[1][1] # swap.claimers[2][1]
        /\ swap.amount_remaining = 0
        /\ swap.is_completed /\ ~swap.is_refunded

\* C26: no account is authorized at construction; no step changes the owner;
\* the table of authorized resolvers changes only in a successful
\* authorize_resolver called by the owner, which authorizes the resolver it
\* names and nobody else; authorize_resolver called by any other account
\* fails with "Only owner" and changes nothing; so is_authorized_resolver is
\* false for every account the owner has not authorized.
C26_Step ==
    /\ owner' = owner
    /\ authorized_resolvers' # authorized_resolvers
       => last'.op = "authorize_resolver" /\ last'.ok /\ last'.caller = owner
    /\ \A r \in Accounts :
           is_authorized_resolver(r)' /\ ~is_authorized_resolver(r)
           => last'.op = "authorize_resolver" /\ last'.ok
              /\ last'.caller = owner /\ last'.id = r
    /\ CallStep /\ last'.op = "authorize_resolver" /\ last'.caller # owner
       => ~last'.ok /\ last'.err = "Only owner" /\ Quiet
C26_OnlyOwnerAuthorizes ==
    /\ \A r \in Accounts : ~is_authorized_resolver(r)
    /\ [][C26_Step]_vars
\* an account other than the owner has just been refused while the owner had
\* authorized somebody, and the resolver it named is still not authorized
C26_StrangerRefused ==
    /\ last.op = "authorize_resolver" /\ ~last.ok
    /\ last.caller # owner
    /\ ~is_authorized_resolver(last.id)
    /\ \E r \in Accounts : is_authorized_resolver(r)

\* C27: a call of a read-only method, whatever its arguments, changes no
\* store, issues no transfer and takes no deposit.
C27_QueriesNeverMutate == [][CallStep /\ last'.op \in Queries => Quiet]_vars
\* a query on an id that does not exist has just returned None
C27_QueriedMissingId ==
    /\ last.op \in Queries /\ last.ok
    /\ last.id = NoSuchId
    /\ last.ret = None

\* C28: the fill_percentage returned by get_swap_progress for a stored swap
\* is floor(filled_amount * 100 / total_amount), 0 when total_amount is 0,
\* and lies between 0 and 100.
C28_PercentageIsFloor ==
    /\ last.op = "get_swap_progress" /\ last.ok
    /\ Has(partial_fill_swaps, last.id)
    => LET swap == partial_fill_swaps[last.id]
           returned == last.ret[1][6] IN
       /\ returned = (IF swap.total_amount = 0 THEN 0
                      ELSE (swap.filled_amount * 100) \div swap.total_amount)
       /\ returned \in 0..100
\* get_swap_progress has answered for a swap that is partly filled
C28_ProgressOfPartlyFilled ==
    /\ last.op = "get_swap_progress" /\ last.ok
    /\ Has(partial_fill_swaps, last.id)
    /\ partial_fill_swaps[last.id].filled_amount = 1
    /\ partial_fill_swaps[last.id].total_amount = 2
    /\ last.ret[1][6] = 50

\* C29: when a successful claim_swap issues its payout transfer, the
\* claims_in_progress table holds the flag of the swap id it set before.
C29_FlagHeldAtTransfer ==
    last.op = "claim_swap" /\ last.ok /\ last.paid > 0 => last.flag_at_transfer

\* C30: a call that fails has written nothing before the check that made it
\* fail: every failing check of a method comes before its first write.
C30_ChecksBeforeWrites == ~last.ok => last.writes_undone = 0

\* C31: the id of a swap depends on the block time: once the block time has
\* moved on, an initiate_swap with the sender, receiver, hashlock and
\* timelock of a stored swap is not rejected as a duplicate.
C31_Step ==
    now' # now =>
        \A swap_id \in DOMAIN swaps :
            LET swap == swaps[swap_id] IN
            initiate_swap_err(swap.sender, 1, swap.receiver, swap.hashlock,
                              swap.timelock)' # "Swap already exists"
C31_IdDependsOnTime == [][C31_Step]_vars
\* a swap is stored, the block time is past its creation and before its
\* timelock
C31_StoredSwapLater ==
    \E swap_id \in DOMAIN swaps : now > 0 /\ swaps[swap_id].timelock > now

\* C32: for every swap of FusionHTLC the transfers issued for it sum to at
\* most its locked amount, and to exactly that amount once it is refunded; a
\* successful claim_swap issues one transfer, of the claimed amount, to the
\* claimer; a successful refund_swap issues one transfer, of the
\* amount_remaining of that moment, to the sender; on a refunded swap no
\* claim_swap and no refund_swap succeeds.
C32_Bounded ==
    \A swap_id \in DOMAIN swaps :
        /\ PaidFor(swap_id) <= swaps[swap_id].amount
        /\ swaps[swap_id].is_refunded => PaidFor(swap_id) = swaps[swap_id].amount
C32_Step ==
    \A swap_id \in DOMAIN swaps :
        last'.op \in {"claim_swap", "refund_swap"} /\ last'.id = swap_id =>
            LET swap == swaps[swap_id] IN
            /\ swap.is_refunded => ~last'.ok
            /\ last'.ok /\ last'.op = "claim_swap"
               => transfers' = transfers (+) SetToBag({[id |-> swap_id,
                                                        to |-> last'.caller,
                                                        amount |-> last'.amount]})
            /\ last'.ok /\ last'.op = "refund_swap"
               => /\ transfers' = transfers (+) SetToBag({[id |-> swap_id,
                                                           to |-> swap.sender,
                                                           amount |-> swap.amount_remaining]})
                  /\ swaps'[swap_id].is_refunded
C32_NeverOverpaid == []C32_Bounded /\ [][CallStep => C32_Step]_vars
\* a swap has been claimed in part and then refunded for the rest
C32_RefundedAfterPartialClaim ==
    /\ last.op = "refund_swap" /\ last.ok
    /\ Has(swaps, last.id)
    /\ swaps[last.id].amount_claimed > 0
    /\ last.paid = swaps[last.id].amount_remaining
    /\ last.paid < swaps[last.id].amount

\* C33: between two calls the claims_in_progress table of FusionHTLC is
\* empty, after a claim_swap that succeeded as after one that failed, and no
\* claim_swap is rejected with "Claim already in progress".
C33_NoFlagAtRest ==
    /\ DOMAIN claims_in_progress = {}
    /\ \A swap_id \in DOMAIN swaps \cup {NoSuchId} : ~is_claiming_in_progress(swap_id)
    /\ last.err # "Claim already in progress"
\* a second claim on a swap has just succeeded
C33_SecondClaimAccepted ==
    /\ last.op = "claim_swap" /\ last.ok
    /\ Has(swaps, last.id)
    /\ Len(swaps[last.id].claimers) = 2

\* C34: a fill can be completed when it is created: in the state a
\* successful create_partial_fill leaves, the timelock of the stored fill is
\* not before its created_at and a complete_partial_fill by its receiver is
\* not rejected with "Timelock expired".
C34_ClaimableWhenCreated ==
    last.op = "create_partial_fill" /\ last.ok /\ Has(partial_fills, last.id) =>
        LET fill == partial_fills[last.id] IN
        /\ fill.timelock >= fill.created_at
        /\ \A p \in Preimages :
               complete_partial_fill_err(fill.receiver, last.id, p) # "Timelock expired"
\* a fill has just been created before the timelock of its swap
C34_FillCreatedInTime ==
    /\ last.op = "create_partial_fill" /\ last.ok
    /\ Has(partial_fills, last.id)
    /\ partial_fills[last.id].timelock > now

\* whether a single cleanup of swap_id would return true in this state
C35_Due(swap_id) ==
    /\ swap_id \in DOMAIN swaps
    /\ now >= swaps[swap_id].timelock
    /\ ~swaps[swap_id].is_completed
\* the ids of a batch for which the single cleanup returns true, in input
\* order: an id listed twice is cleaned at its first position only
C35_Expected(swap_ids) ==
    LET positions == SelectSeq([i \in 1..Len(swap_ids) |-> i],
                               LAMBDA i : /\ C35_Due(swap_ids[i])
                                          /\ \A j \in 1..(i - 1) :
                                                 swap_ids[j] # swap_ids[i])
    IN [k \in 1..Len(positions) |-> swap_ids[positions[k]]]
\* the swaps after the swaps of the set S have been marked completed
C35_Completed(S) ==
    [id \in DOMAIN swaps |->
        IF id \in S THEN [swaps[id] EXCEPT !.is_completed = TRUE] ELSE swaps[id]]
\* the batches given to cleanup_expired_swaps
C35_Batches ==
    UNION { [1..n -> DOMAIN swaps \cup {NoSuchId}] : n \in 0..MaxBatch }

\* C35: cleanup_expired_swap returns true exactly when the swap exists, the
\* block time is at or after its timelock and it is not completed; it then
\* sets is_completed and changes nothing else of the swap, and otherwise
\* changes nothing; it never issues a transfer; a cleanup repeated right
\* after returns false; cleanup_expired_swaps returns, in input order, the ids
\* for which the single cleanup returns true and completes exactly those.
C35_Step ==
    /\ last'.op = "cleanup_expired_swap"
       => /\ last'.ok
          /\ (last'.ret # << >>) <=> C35_Due(last'.id)
          /\ swaps' = C35_Completed(IF C35_Due(last'.id) THEN {last'.id} ELSE {})
          /\ ~cleanup_fires(swaps', last'.id)
          /\ transfers' = transfers /\ deposited' = deposited
          /\ eth_swap_requests' = eth_swap_requests
    /\ last'.op = "cleanup_expired_swaps"
       => /\ last'.ok
          /\ \E swap_ids \in C35_Batches :
                 /\ last'.ret = C35_Expected(swap_ids)
                 /\ swaps' = C35_Completed({swap_ids[i] : i \in 1..Len(swap_ids)}
                                           \cap {id \in DOMAIN swaps : C35_Due(id)})
          /\ transfers' = transfers /\ deposited' = deposited
          /\ eth_swap_requests' = eth_swap_requests
    /\ \A swap_ids \in C35_Batches :
           cleanup_loop(swap_ids, Len(swap_ids)).cleaned = C35_Expected(swap_ids)
C36_TotalPaid == SumPaid(transfers, BagToSet(transfers))

\* C36: in each contract the transfers issued so far sum to no more than the
\* deposits attached to the successful deposit-taking calls so far.
C36_Solvency == C36_TotalPaid <= deposited
\* two deposits have been taken and both have been paid out in full
C36_AllPaidOut ==
    /\ deposited >= 2
    /\ C36_TotalPaid = deposited
    /\ BagCardinality(transfers) >= 2

\* the sum of the values of the function f
RECURSIVE C37_Sum(_, _)
C37_Sum(f, S) ==
    IF S = {} THEN 0
    ELSE LET x == CHOOSE y \in S : TRUE IN f[x] + C37_Sum(f, S \ {x})
\* the value still claimable or refundable through the stored open records
C37_Open ==
    C37_Sum([id \in DOMAIN contracts |->
                IF contracts[id].withdrawn \/ contracts[id].refunded THEN 0
                ELSE contracts[id].amount], DOMAIN contracts)
    + C37_Sum([id \in DOMAIN cross_chain_contracts |->
                  IF cross_chain_contracts[id].withdrawn
                     \/ cross_chain_contracts[id].refunded THEN 0
                  ELSE cross_chain_contracts[id].amount], DOMAIN cross_chain_contracts)
    + C37_Sum([id \in DOMAIN partial_fills |->
                  IF partial_fills[id].completed \/ partial_fills[id].refunded THEN 0
                  ELSE partial_fills[id].fill_amount], DOMAIN partial_fills)

\* C37: in HTLCNear the deposits taken minus the transfers issued equal the
\* amounts of the stored escrows and cross-chain escrows that are neither
\* withdrawn nor refunded plus the fill_amounts of the stored fills that are
\* neither completed nor refunded.
C37_NothingStranded ==
    component \in {"Escrow", "CrossChain", "PartialFill", "Owner"}
        => deposited - C36_TotalPaid = C37_Open
\* an escrow and nothing else is held
C37_OneOpenEscrow ==
    /\ component = "Escrow"
    /\ deposited = 1 /\ C36_TotalPaid = 0 /\ C37_Open = 1

\* the maps before and after hold the same records outside the ids of T
C38_Same(before, after, T) ==
    /\ DOMAIN before \ T = DOMAIN after \ T
    /\ \A id \in DOMAIN before \ T : after[id] = before[id]
\* the ids whose records the call may change, store by store
C38_Touched(call, fills_after) ==
    [contracts |->
         IF call.op \in {"create_htlc", "withdraw", "refund"} THEN {call.id} ELSE {},
     cross_chain_contracts |->
         IF call.op \in {"create_cross_chain_htlc", "complete_cross_chain_swap",
                         "refund_cross_chain"} THEN {call.id} ELSE {},
     partial_fills |->
         IF call.op \in {"create_partial_fill", "complete_partial_fill",
                         "refund_partial_fill"} THEN {call.id} ELSE {},
     partial_fill_swaps |->
         IF call.op = "create_partial_fill_swap" THEN {call.id}
         ELSE IF call.op \in {"create_partial_fill", "refund_partial_fill"}
              THEN {fills_after[call.id].parent_swap_id}
         ELSE {},
     swaps |->
         IF call.op \in {"initiate_swap", "claim_swap", "refund_swap",
                         "cleanup_expired_swap"} THEN {call.id}
         ELSE IF call.op = "cleanup_expired_swaps"
              THEN {call.ret[i] : i \in 1..Len(call.ret)}
         ELSE {},
     eth_swap_requests |->
         IF call.op \in {"request_eth_swap", "complete_eth_swap", "refund_eth_swap"}
         THEN {call.id} ELSE {}]

\* C38: a successful call changes, in every store, only the records of the
\* ids it names (create_partial_fill and refund_partial_fill: the fill and
\* its parent swap): every other escrow, cross-chain escrow, swap, fill and
\* request is the same after the call, and so is the outcome that a
\* withdrawal, completion, claim or refund naming another id would have.
C38_Step ==
    last'.ok /\ last'.op \notin Queries =>
        LET T == C38_Touched(last', partial_fills') IN
        /\ C38_Same(contracts, contracts', T.contracts)
        /\ C38_Same(cross_chain_contracts, cross_chain_contracts', T.cross_chain_contracts)
        /\ C38_Same(partial_fills, partial_fills', T.partial_fills)
        /\ C38_Same(partial_fill_swaps, partial_fill_swaps', T.partial_fill_swaps)
        /\ C38_Same(swaps, swaps', T.swaps)
        /\ C38_Same(eth_swap_requests, eth_swap_requests', T.eth_swap_requests)
        /\ \A c \in Accounts, p \in Preimages :
               /\ \A id \in DOMAIN contracts \ T.contracts :
                      /\ withdraw_err(c, id, p)' = withdraw_err(c, id, p)
                      /\ refund_err(c, id)' = refund_err(c, id)
               /\ \A id \in DOMAIN swaps \ T.swaps :
                      /\ \A a \in TotalAmounts :
                             claim_swap_err(c, id, p, a)' = claim_swap_err(c, id, p, a)
                      /\ refund_swap_err(c, id)' = refund_swap_err(c, id)
               /\ \A id \in DOMAIN eth_swap_requests \ T.eth_swap_requests :
                      /\ complete_eth_swap_err(id, p)' = complete_eth_swap_err(id, p)
                      /\ refund_eth_swap_err(id)' = refund_eth_swap_err(id)
               /\ \A id \in DOMAIN partial_fills \ T.partial_fills :
                      complete_partial_fill_err(c, id, p)'
                          = complete_partial_fill_err(c, id, p)
C39_Step ==
    last'.op \in {"emergency_pause", "migrate_to_partial_fills"} =>
        /\ last'.ok <=> last'.caller = owner
        /\ ~last'.ok => last'.err = (IF last'.op = "emergency_pause"
                                     THEN "Only owner can pause"
                                     ELSE "Only owner can migrate")
        /\ Quiet /\ now' = now
        /\ \A c \in Accounts, p \in Preimages :
               /\ \A id \in DOMAIN contracts \cup {NoSuchId} :
                      /\ withdraw_err(c, id, p)' = withdraw_err(c, id, p)
                      /\ refund_err(c, id)' = refund_err(c, id)
               /\ \A id \in DOMAIN partial_fills \cup {NoSuchId} :
                      /\ complete_partial_fill_err(c, id, p)'
                             = complete_partial_fill_err(c, id, p)
                      /\ refund_partial_fill_err(c, id)' = refund_partial_fill_err(c, id)
               /\ \A id \in DOMAIN partial_fill_swaps, a \in Amounts :
                      create_partial_fill_err(c, a, id, Sha256(p), a)'
                          = create_partial_fill_err(c, a, id, Sha256(p), a)
               /\ \A a \in Amounts, t \in Times :
                      create_htlc_err(a, Sha256(p), t)' = create_htlc_err(a, Sha256(p), t)
C39_PauseChangesNothing == [][CallStep => C39_Step]_vars
\* the owner has just paused or migrated a contract that holds an open fill
C39_OwnerCalledWithOpenFill ==
    /\ last.op \in {"emergency_pause", "migrate_to_partial_fills"}
    /\ last.ok /\ last.caller = owner
    /\ \E id \in DOMAIN partial_fills :
           ~partial_fills[id].completed /\ ~partial_fills[id].refunded

====
